---- MODULE Spec2Model ----
(***************************************************************************)
(* A model of the CMX 3600 EDL reader of otio_cmx3600_adapter: the         *)
(* statement lexer (edl_parser.statements_from_lines) and the              *)
(* reconstruction engine (cmx_3600_reader.EDLReader), with the parts of    *)
(* the opentime / Track API the reader calls.                              *)
(***************************************************************************)
EXTENDS Integers, Sequences, FiniteSets, TLC

(***************************************************************************)
(* Bounds of the model.                                                    *)
(***************************************************************************)
\* statements the reader pulls from the lexer before the input ends
MaxStatements == 4
\* lines the lexer is given
MaxLines == 3

(***************************************************************************)
(* Timecode engine.  A RationalTime is kept exactly: t is the time in      *)
(* ticks of 1/TicksPerSecond s, r the rate it is expressed at, so that     *)
(* value = t * r / TicksPerSecond.  Arithmetic follows opentime: the       *)
(* result is at the larger rate, comparison is comparison of times.        *)
(***************************************************************************)
known_rates == <<1, 12, 24, 25, 30, 48, 50, 60>>

\* a multiple of every known rate
TicksPerSecond == 16 * 3 * 25

FrameTicks(rate) == TicksPerSecond \div rate

RationalTime(value, rate) == [t |-> value * FrameTicks(rate), r |-> rate]

Max(a, b) == IF a < b THEN b ELSE a

\* RationalTime.__add__ / __sub__
TimeAdd(a, b) == [t |-> a.t + b.t, r |-> Max(a.r, b.r)]
TimeSub(a, b) == [t |-> a.t - b.t, r |-> Max(a.r, b.r)]

\* RationalTime.rescaled_to(rate)
rescaled_to(a, rate) == [t |-> a.t, r |-> rate]

\* RationalTime.value, defined when the time is a whole number of frames
TimeValue(a) == a.t \div FrameTicks(a.r)

TimeRange(start_time, duration) == [start_time |-> start_time, duration |-> duration]

\* opentime.range_from_start_end_time: the duration is at the start's rate
range_from_start_end_time(start_time, end_time) ==
    TimeRange(start_time, [t |-> end_time.t - start_time.t, r |-> start_time.r])

end_time_exclusive(range) == TimeAdd(range.start_time, range.duration)

\* TimeRange.end_time_inclusive: a range of at most one frame ends where it
\* starts; a longer one ends one frame (or at the floor frame) before its end.
end_time_inclusive(range) ==
    LET et == end_time_exclusive(range)
        ft == FrameTicks(range.duration.r)
    IN  IF range.duration.t > ft
        THEN IF range.duration.t % ft # 0
             THEN [t |-> (et.t \div FrameTicks(et.r)) * FrameTicks(et.r), r |-> et.r]
             ELSE TimeSub(et, RationalTime(1, range.duration.r))
        ELSE range.start_time

\* A timecode text is <<hh, mm, ss, ff>>; a plain frame count is <<n>>.
IsFrameCount(timecode) == Len(timecode) = 1

\* opentime.to_timecode(opentime.from_frames(n, rate), rate), non-drop
to_timecode(n, rate) ==
    <<(n \div (rate * 3600)), (n \div (rate * 60)) % 60, (n \div rate) % 60, n % rate>>

\* the whole rates opentime reads a timecode at (the list known_rates is
\* derived from)
valid_timecode_rates == {1, 12, 24, 25, 30, 48, 50, 60}

\* opentime.from_timecode: ValueError when the text has not four fields, when
\* the rate is not a timecode rate and when the frame field does not fit the
\* rate
from_timecode(timecode, rate) ==
    IF Len(timecode) # 4 \/ rate \notin valid_timecode_rates \/ timecode[4] >= rate
    THEN [ok |-> FALSE, time |-> RationalTime(0, rate)]
    ELSE [ok |-> TRUE,
          time |-> RationalTime(((timecode[1] * 60 + timecode[2]) * 60 + timecode[3]) * rate
                                + timecode[4], rate)]

\* the mutation of the inference that always takes the rate after the
\* frame field
InferRate_frame_count(tc_frame_count, i) == tc_frame_count + 1

RECURSIVE InferRate(_, _)
InferRate(tc_frame_count, i) ==
    IF i > Len(known_rates) THEN tc_frame_count + 1
    ELSE IF known_rates[i] > tc_frame_count THEN known_rates[i]
    ELSE InferRate(tc_frame_count, i + 1)

\* the mutation of from_timecode_approx that, when told to ignore invalid
\* timecodes, reads every timecode at the inferred rate
from_timecode_approx_always_inferred(timecode, rate, ignore_invalid_timecode_errors) ==
    LET Parsed(tc, nominal) ==
            IF ~ignore_invalid_timecode_errors \/ Len(tc) # 4
            THEN [ok |-> nominal.ok, time |-> nominal.time, adjusted |-> FALSE]
            ELSE [ok |-> TRUE, time |-> from_timecode(tc, InferRate(tc[4], 1)).time,
                  adjusted |-> TRUE]
        Approx(tc) == Parsed(tc, from_timecode(tc, rate))
    IN  Approx(IF IsFrameCount(timecode) THEN to_timecode(timecode[1], rate) ELSE timecode)

\* from_timecode_approx: (time, did_adjust_to_rate), or the ValueError (ok = FALSE)
from_timecode_approx(timecode, rate, ignore_invalid_timecode_errors) ==
    LET Retried(nominal, retry) ==
            IF retry.ok
            THEN [ok |-> TRUE, time |-> retry.time, adjusted |-> TRUE]
            ELSE [ok |-> FALSE, time |-> nominal.time, adjusted |-> FALSE]
        Parsed(tc, nominal) ==
            IF nominal.ok THEN [ok |-> TRUE, time |-> nominal.time, adjusted |-> FALSE]
            ELSE IF ~ignore_invalid_timecode_errors \/ Len(tc) # 4
            THEN [ok |-> FALSE, time |-> nominal.time, adjusted |-> FALSE]
            ELSE Retried(nominal, from_timecode(tc, InferRate(tc[4], 1)))
        Approx(tc) == Parsed(tc, from_timecode(tc, rate))
    IN  Approx(IF IsFrameCount(timecode) THEN to_timecode(timecode[1], rate) ELSE timecode)

from_timecode_range_approx(start_timecode, end_timecode, rate, ignore_invalid_timecode_errors) ==
    LET Approx(s, e) ==
            [ok |-> s.ok /\ e.ok,
             range |-> range_from_start_end_time(s.time, e.time),
             adjusted |-> s.adjusted \/ e.adjusted]
    IN  Approx(from_timecode_approx(start_timecode, rate, ignore_invalid_timecode_errors),
               from_timecode_approx(end_timecode, rate, ignore_invalid_timecode_errors))

(***************************************************************************)
(* Statement model (edl_statement.py).  Strings the code converts are kept *)
(* as sequences: an edit number and an edit parameter are sequences of     *)
(* decimal digits.                                                         *)
(***************************************************************************)
\* edit_number is None before the first explicit edit number
NoneEdit == <<-1>>
\* edit_parameter is None when the line has none
NoneParam == <<>>
NoTimecode == <<0, 0, 0, 0>>

\* the mutation of the stripping that removes one zero
lstrip0_once(digits) ==
    IF digits # <<>> /\ Head(digits) = 0 THEN Tail(digits) ELSE digits

RECURSIVE lstrip0(_)
\* str.lstrip("0")
lstrip0(digits) ==
    IF digits # <<>> /\ Head(digits) = 0 THEN lstrip0(Tail(digits)) ELSE digits

\* EDLStatement.normalized_edit_number
normalized_edit_number(statement) ==
    IF statement.edit_number = NoneEdit THEN NoneEdit
    ELSE lstrip0(statement.edit_number)

RECURSIVE int(_)
\* int(text) of a string of decimal digits
int(digits) ==
    IF digits = <<>> THEN 0
    ELSE 10 * int(SubSeq(digits, 1, Len(digits) - 1)) + digits[Len(digits)]

StandardFormStatement(edit_number, source_identification, channels, edit_type, edit_parameter, source_entry, source_exit, sync_entry, sync_exit) ==
    [kind |-> "StandardFormStatement",
     line_number |-> 0,
     edit_number |-> edit_number,
     is_edit_number_inferred |-> FALSE,
     source_identification |-> source_identification,
     channels |-> channels,
     edit_type |-> edit_type,
     edit_parameter |-> edit_parameter,
     source_entry |-> source_entry,
     source_exit |-> source_exit,
     sync_entry |-> sync_entry,
     sync_exit |-> sync_exit,
     is_comment |-> FALSE,
     identifier |-> "",
     data |-> ""]

\* A note-form statement: statement_text is identifier followed by data.
NoteFormStatement(edit_number, is_edit_number_inferred, is_comment, identifier, data) ==
    [kind |-> "NoteFormStatement",
     line_number |-> 0,
     edit_number |-> edit_number,
     is_edit_number_inferred |-> is_edit_number_inferred,
     source_identification |-> "",
     channels |-> "",
     edit_type |-> "",
     edit_parameter |-> NoneParam,
     source_entry |-> NoTimecode,
     source_exit |-> NoTimecode,
     sync_entry |-> NoTimecode,
     sync_exit |-> NoTimecode,
     is_comment |-> is_comment,
     identifier |-> identifier,
     data |-> data]

\* NoteFormStatement.NoteFormIdentifiers
NoteFormIdentifiers ==
    {"TITLE", "WAIT", "SKIP", "BELL", "RECORD", "NORECORD", "SLAVE", "NOSLAVE",
     "AUDIO", "INCLUDE", "MEDIUM", "WIPES", "MOTION_CURVE", "TIME_CODE_MODULUS",
     "FCM", "SPLIT", "GPI", "M/S", "SWM", "M2", "%", "FROM CLIP NAME",
     "TO CLIP NAME", "FROM CLIP", "FROM FILE", "SOURCE FILE", "LOC", "ASC_SOP",
     "ASC_SAT", "* FREEZE FRAME", "OTIO REFERENCE"}

\* NoteFormStatement.statement_identifier: None for an unknown identifier
statement_identifier(statement) ==
    IF statement.identifier \in NoteFormIdentifiers THEN statement.identifier ELSE "None"

\* EffectType values
EffectTypes == {"C", "R", "D", "W", "K", "KB", "KO", "M", "F", "Q", "N", "X"}

\* Effect.WIPE_RE: an edit type W followed by three digits
WipeCodes == {"W001", "W019"}

\* StandardFormStatement.effect: the effect type, "None" when the edit type
\* is no effect type
effect_type(statement) ==
    IF statement.edit_type \in EffectTypes THEN statement.edit_type
    ELSE IF statement.edit_type \in WipeCodes THEN "W"
    ELSE "None"

\* Effect.transition_duration: int(parameter), None (-1) without a parameter
transition_duration(statement) ==
    IF statement.edit_parameter # NoneParam THEN int(statement.edit_parameter) ELSE -1

\* StandardFormStatement.special_source
special_source(statement) ==
    CASE statement.source_identification \in {"BLACK", "BL"} -> "BLACK"
      [] statement.source_identification \in {"BARS", "SMPTEBars"} -> "BARS"
      [] statement.source_identification = "AX" -> "AX"
      [] OTHER -> "None"

(***************************************************************************)
(* Timeline objects (opentimelineio.schema), as far as the reader uses     *)
(* them.  A track's children are Clip, Transition and Gap items.           *)
(***************************************************************************)
ZeroTime == [t |-> 0, r |-> 1]

\* A name is kept by its parts: a clip's name is a comment's text, the stem
\* of a url or an edit number; a transition's name is "<type> to <clip name>"
\* or "<type> from <clip_name> to <dest_clip_name>".
Name(from, source, text, number) ==
    [from |-> from, source |-> source, text |-> text, number |-> number]

NoName == Name("none", "", "", NoneEdit)

IsClip(item) == item.kind = "Clip"
IsTransition(item) == item.kind = "Transition"

\* Item.duration(): the source range's duration; in_offset + out_offset for
\* a Transition
ItemDuration(item) ==
    IF IsTransition(item) THEN TimeAdd(item.in_offset, item.out_offset)
    ELSE item.source_range.duration

RECURSIVE SumDurations(_, _)
SumDurations(children, zero) ==
    IF children = <<>> THEN zero
    ELSE LET rest == SumDurations(SubSeq(children, 1, Len(children) - 1), zero)
             last == children[Len(children)]
         IN  IF IsTransition(last) THEN rest ELSE TimeAdd(rest, ItemDuration(last))

\* Track.duration(): the items' durations, plus the offsets of a transition
\* that is the first or the last child
TrackDuration(children) ==
    LET items == SumDurations(children, ZeroTime)
        head == IF children # <<>> /\ IsTransition(children[1])
                THEN TimeAdd(items, children[1].in_offset) ELSE items
    IN  IF children # <<>> /\ IsTransition(children[Len(children)])
        THEN TimeAdd(head, children[Len(children)].out_offset) ELSE head

\* Track.range_of_child_at_index (index from 1)
range_of_child_at_index(children, index) ==
    LET child == children[index]
        before == SumDurations(SubSeq(children, 1, index - 1),
                               [t |-> 0, r |-> ItemDuration(child).r])
        start_time == IF IsTransition(child) THEN TimeSub(before, child.in_offset)
                      ELSE before
    IN  TimeRange(start_time, ItemDuration(child))

RECURSIVE bisect_left(_, _, _, _)
\* Composition._bisect_left over the children's inclusive end times
\* (bounds count from 0)
bisect_left(children, tgt, lower, upper) ==
    IF lower >= upper THEN lower
    ELSE LET mid == (lower + upper) \div 2
             key == end_time_inclusive(range_of_child_at_index(children, mid + 1))
         IN  IF key.t < tgt.t THEN bisect_left(children, tgt, mid + 1, upper)
             ELSE bisect_left(children, tgt, lower, mid)

RECURSIVE bisect_right(_, _, _, _)
\* Composition._bisect_right over the children's start times
bisect_right(children, tgt, lower, upper) ==
    IF lower >= upper THEN lower
    ELSE LET mid == (lower + upper) \div 2
             key == range_of_child_at_index(children, mid + 1).start_time
         IN  IF tgt.t < key.t THEN bisect_right(children, tgt, lower, mid)
             ELSE bisect_right(children, tgt, mid + 1, upper)

\* Track.children_in_range(search_range): the children from the first one
\* that ends at or after the range's start up to the last one that starts
\* at or before its end, in the track's own coordinates
children_in_range(children, search_range) ==
    LET first_inside_range == bisect_left(children, search_range.start_time, 0, Len(children))
        last_in_range == bisect_right(children, end_time_inclusive(search_range),
                                      first_inside_range, Len(children))
    IN  SubSeq(children, first_inside_range + 1, last_in_range)

(***************************************************************************)
(* EventComments (cmx_3600_reader.py): the notes of one event, classified. *)
(* handled[key] is <<>> while the key is absent, <<value>> once set, and   *)
(* the list of markers for "locators".                                     *)
(***************************************************************************)
\* EventComments.HANDLED_NOTE_STATEMENTS
HANDLED_NOTE_STATEMENTS ==
    [identifier \in {"FROM CLIP NAME", "TO CLIP NAME", "FROM CLIP", "FROM FILE", "LOC",
                   "ASC_SOP", "ASC_SAT", "* FREEZE FRAME", "OTIO REFERENCE"} |->
        CASE identifier = "FROM CLIP NAME" -> "clip_name"
          [] identifier = "TO CLIP NAME" -> "dest_clip_name"
          [] identifier \in {"FROM CLIP", "FROM FILE", "OTIO REFERENCE"} -> "media_reference"
          [] identifier = "LOC" -> "locators"
          [] identifier = "ASC_SOP" -> "asc_sop"
          [] identifier = "ASC_SAT" -> "asc_sat"
          [] OTHER -> "freeze_frame"]

HandledKeys ==
    {"clip_name", "dest_clip_name", "media_reference", "locators", "asc_sop", "asc_sat",
     "freeze_frame"}

\* the length of the run of characters of chars in text from position i on
RunFrom(text, i, chars) ==
    LET stops == {j \in i..Len(text) : SubSeq(text, j, j) \notin chars}
    IN  IF stops = {} THEN Len(text) + 1 - i
        ELSE (CHOOSE j \in stops : \A k \in stops : j <= k) - i

\* the length of what EventComments.ASC_SOP_REGEX matches at position i of
\* the text: signs, digits, a point and digits; 0 when it does not match
AscSopMatchAt(text, i) ==
    LET Fraction(point, fraction) ==
            IF fraction = 0 THEN 0 ELSE point + fraction + 1 - i
        Whole(point, whole) ==
            IF whole = 0 \/ SubSeq(text, point, point) # "." THEN 0
            ELSE Fraction(point, RunFrom(text, point + 1,
                                         {"0", "1", "2", "3", "4", "5", "6", "7", "8", "9"}))
        Signed(first_digit) ==
            Whole(first_digit + RunFrom(text, first_digit,
                                        {"0", "1", "2", "3", "4", "5", "6", "7", "8", "9"}),
                  RunFrom(text, first_digit,
                          {"0", "1", "2", "3", "4", "5", "6", "7", "8", "9"}))
    IN  Signed(i + RunFrom(text, i, {"+", "-"}))

RECURSIVE ASC_SOP_REGEX_findall(_, _)
\* EventComments.ASC_SOP_REGEX.findall(sop_data), from position i on
ASC_SOP_REGEX_findall(sop_data, i) ==
    LET Found(width) ==
            IF width = 0 THEN ASC_SOP_REGEX_findall(sop_data, i + 1)
            ELSE <<SubSeq(sop_data, i, i + width - 1)>>
                     \o ASC_SOP_REGEX_findall(sop_data, i + width)
    IN  IF i > Len(sop_data) THEN <<>> ELSE Found(AscSopMatchAt(sop_data, i))

\* the mutation of parsed_asc_sop that takes any number of values
parsed_asc_sop_never_raises(sop_data) == FALSE

\* EventComments.parsed_asc_sop raises EDLParseError
parsed_asc_sop_raises(sop_data) == Len(ASC_SOP_REGEX_findall(sop_data, 1)) < 9
\* note data float() accepts
ValidAscSatData == {"0.9"}
\* note data the locator pattern of marker_for_locator_comment matches
ValidLocatorData == {"01:00:01:14 RED ANIM FIX NEEDED"}

statement_text(statement) == <<statement.identifier, statement.data>>

\* the mutation of process_note_statement in which every note of a key sets
\* its value
process_note_statement_last_wins(comments, statement) ==
    IF statement_identifier(statement) \notin DOMAIN HANDLED_NOTE_STATEMENTS
    THEN [comments EXCEPT !.unhandled = Append(@, statement_text(statement))]
    ELSE IF statement_identifier(statement) = "LOC"
    THEN [comments EXCEPT !.handled["locators"] = Append(@, statement.data)]
    ELSE [comments EXCEPT
             !.handled[HANDLED_NOTE_STATEMENTS[statement_identifier(statement)]] =
                 <<statement.data>>]

\* EventComments.process_note_statement, with the except clause of __init__:
\* a note that raises goes to unhandled and to malformed
process_note_statement(comments, statement) ==
    LET note_form_identifier == statement_identifier(statement)
        unhandled == [comments EXCEPT !.unhandled = Append(@, statement_text(statement))]
        key == HANDLED_NOTE_STATEMENTS[note_form_identifier]
        set == [comments EXCEPT !.handled[key] = <<statement.data>>]
    IN  IF note_form_identifier \notin DOMAIN HANDLED_NOTE_STATEMENTS THEN unhandled
        ELSE IF note_form_identifier = "LOC"
        THEN IF statement.data \in ValidLocatorData
             THEN [comments EXCEPT !.handled[key] = Append(@, statement.data)]
             ELSE comments
        ELSE IF comments.handled[key] # <<>> THEN unhandled
        ELSE IF key = "asc_sat" /\ statement.data \notin ValidAscSatData
        THEN [unhandled EXCEPT !.malformed = Append(@, statement_text(statement))]
        ELSE IF key = "asc_sop" /\ parsed_asc_sop_raises(statement.data)
        THEN [unhandled EXCEPT !.malformed = Append(@, statement_text(statement))]
        ELSE set

RECURSIVE EventComments(_)
\* EventComments.__init__
EventComments(notes) ==
    IF notes = <<>>
    THEN [handled |-> [k \in HandledKeys |-> <<>>], unhandled |-> <<>>, malformed |-> <<>>]
    ELSE process_note_statement(EventComments(SubSeq(notes, 1, Len(notes) - 1)),
                                notes[Len(notes)])

(***************************************************************************)
(* EDLReader: building the items of one event.                             *)
(***************************************************************************)
\* comment data EDLReader.IMAGE_SEQUENCE_PATTERN matches
ImageSequenceTargets == {"/media/path/my_image_sequence.[1025-1060].ext"}

\* EDLReader.media_reference_for_statement
media_reference_for_statement(statement, comment_ref_data) ==
    CASE special_source(statement) = "BLACK" ->
            [type |-> "GeneratorReference", target |-> "black"]
      [] special_source(statement) = "BARS" ->
            [type |-> "GeneratorReference", target |-> "SMPTEBars"]
      [] special_source(statement) \notin {"BLACK", "BARS"} /\ comment_ref_data # <<>> ->
            IF comment_ref_data[1] \in ImageSequenceTargets
            THEN [type |-> "ImageSequenceReference", target |-> comment_ref_data[1]]
            ELSE [type |-> "ExternalReference", target |-> comment_ref_data[1]]
      [] OTHER -> [type |-> "MissingReference", target |-> ""]

\* EDLReader.name_for_clip: the comment's clip name, else the stem of the
\* media reference's url, else the edit number
name_for_clip(media_reference, comment_clip_name, edit_number) ==
    IF comment_clip_name # <<>> /\ comment_clip_name[1] # ""
    THEN Name("comment", "", comment_clip_name[1], NoneEdit)
    ELSE IF media_reference.type \in {"ExternalReference", "ImageSequenceReference"}
    THEN Name("url", "", media_reference.target, NoneEdit)
    ELSE Name("edit_number", "", "", edit_number)

\* the ValueError make_clip lets through: the start timecode of an image sequence
make_clip_raises(statement, comments, is_from_clip, cfg) ==
    /\ is_from_clip
    /\ special_source(statement) \notin {"BLACK", "BARS"}
    /\ comments.handled["media_reference"] # <<>>
    /\ comments.handled["media_reference"][1] \in ImageSequenceTargets
    /\ ~from_timecode_approx(statement.source_entry, cfg.edl_rate,
                             cfg.ignore_invalid_timecode_errors).ok

\* EDLReader.make_clip; line is the statement's position in the input
make_clip(statement, line, comments, is_from_clip) ==
    LET media_ref == media_reference_for_statement(statement,
                        IF is_from_clip THEN comments.handled["media_reference"] ELSE <<>>)
        comment_clip_name == comments.handled[IF is_from_clip THEN "clip_name"
                                              ELSE "dest_clip_name"]
    IN  [kind |-> "Clip",
         name |-> name_for_clip(media_ref, comment_clip_name, statement.edit_number),
         media_reference |-> media_ref,
         source_range |-> TimeRange(ZeroTime, ZeroTime),
         in_offset |-> ZeroTime,
         out_offset |-> ZeroTime,
         effects |-> <<>>,
         markers |-> IF is_from_clip THEN comments.handled["locators"] ELSE <<>>,
         reel |-> IF statement.source_identification # "AX"
                  THEN statement.source_identification ELSE "None",
         original_timecode |-> [source_tc_in |-> statement.source_entry,
                                source_tc_out |-> statement.source_exit,
                                record_tc_in |-> statement.sync_entry,
                                record_tc_out |-> statement.sync_exit],
         events |-> <<statement.edit_number>>,
         transition |-> "",
         had_timecode_mismatch |-> FALSE,
         timecode_was_adjusted |-> FALSE,
         line |-> line]

\* what make_transition raises, "" when it returns
make_transition_error(statement) ==
    IF effect_type(statement) \notin {"W", "D"} THEN "EDLParseError: transition type not supported"
    ELSE IF transition_duration(statement) = -1
    THEN "EDLParseError: transition is missing a duration"
    ELSE ""

\* the zero offset make_transition gives in_offset
TransitionInOffset(transition_duration_time) == [t |-> 0, r |-> transition_duration_time.r]

\* EDLReader.make_transition, named as process_event_statements names it
make_transition(statement, line, clip, comments, edl_rate) ==
    LET otio_transition_type == IF effect_type(statement) = "W" THEN "SMPTE_Wipe"
                                ELSE "SMPTE_Dissolve"
        duration == RationalTime(transition_duration(statement), edl_rate)
    IN  [kind |-> "Transition",
         name |-> IF comments.handled["dest_clip_name"] # <<>>
                       /\ comments.handled["clip_name"] # <<>>
                  THEN Name(otio_transition_type, comments.handled["clip_name"][1],
                            comments.handled["dest_clip_name"][1], NoneEdit)
                  ELSE Name(otio_transition_type, "", clip.name.text, clip.name.number),
         media_reference |-> [type |-> "None", target |-> ""],
         source_range |-> TimeRange(ZeroTime, ZeroTime),
         in_offset |-> TransitionInOffset(duration),
         out_offset |-> duration,
         effects |-> <<>>,
         markers |-> <<>>,
         reel |-> "None",
         original_timecode |-> clip.original_timecode,
         events |-> <<statement.edit_number>>,
         transition |-> statement.edit_type,
         had_timecode_mismatch |-> FALSE,
         timecode_was_adjusted |-> FALSE,
         line |-> line]

Gap(duration) ==
    [kind |-> "Gap",
     name |-> NoName,
     media_reference |-> [type |-> "None", target |-> ""],
     source_range |-> TimeRange([t |-> 0, r |-> duration.r], duration),
     in_offset |-> ZeroTime,
     out_offset |-> ZeroTime,
     effects |-> <<>>,
     markers |-> <<>>,
     reel |-> "None",
     original_timecode |-> [source_tc_in |-> NoTimecode, source_tc_out |-> NoTimecode,
                            record_tc_in |-> NoTimecode, record_tc_out |-> NoTimecode],
     events |-> <<>>,
     transition |-> "",
     had_timecode_mismatch |-> FALSE,
     timecode_was_adjusted |-> FALSE,
     line |-> 0]

(***************************************************************************)
(* Timing resolver.                                                        *)
(***************************************************************************)
\* record_tc_in == record_tc_out: the range is implicit
duration_is_implicit(clip) ==
    clip.original_timecode.record_tc_in = clip.original_timecode.record_tc_out

\* the mutation of clip_record_ranges that stretches nothing: every record
\* range is the one its statement spells out
clip_record_ranges_unstretched(clips, cfg) ==
    [n \in 1..Len(clips) |->
        from_timecode_range_approx(clips[n].original_timecode.record_tc_in,
                                   clips[n].original_timecode.record_tc_out,
                                   cfg.edl_rate, cfg.ignore_invalid_timecode_errors)]

RECURSIVE clip_record_ranges(_, _)
\* resolve_timings_for_event_items, first loop: the resolved record range of
\* every clip, an implicit one run up to the start of the clip after it
clip_record_ranges(clips, cfg) ==
    IF clips = <<>> THEN <<>>
    ELSE LET n == Len(clips)
             Extended(previous, parsed) ==
                 Append(IF n > 1 /\ duration_is_implicit(clips[n - 1])
                        THEN [previous EXCEPT ![n - 1].range =
                                 range_from_start_end_time(@.start_time,
                                                           parsed.range.start_time)]
                        ELSE previous,
                        parsed)
         IN  Extended(clip_record_ranges(SubSeq(clips, 1, n - 1), cfg),
                      from_timecode_range_approx(
                          clips[n].original_timecode.record_tc_in,
                          clips[n].original_timecode.record_tc_out,
                          cfg.edl_rate, cfg.ignore_invalid_timecode_errors))

\* an effect that is a TimeEffect (LinearTimeWarp, FreezeFrame)
IsTimeEffect(effect) == effect.kind \in {"LinearTimeWarp", "FreezeFrame"}

\* the mutation of resolve_clip that trusts the source timecodes: the source
\* range is the one the statement spells out
resolve_clip_literal(clip, record, cfg) ==
    [clip EXCEPT
        !.source_range = from_timecode_range_approx(
                             clip.original_timecode.source_tc_in,
                             clip.original_timecode.source_tc_out,
                             cfg.edl_rate, cfg.ignore_invalid_timecode_errors).range]

\* the mutation of resolve_clip that tags a clip with a time effect too
resolve_clip_tags_effected(clip, record, cfg) ==
    LET Resolved(src) ==
            [clip EXCEPT
                !.source_range = TimeRange(src.range.start_time,
                                           rescaled_to(record.range.duration,
                                                       src.range.start_time.r)),
                !.had_timecode_mismatch =
                    /\ record.range.duration.t # src.range.duration.t
                    /\ ~duration_is_implicit(clip),
                !.timecode_was_adjusted = record.adjusted \/ src.adjusted]
    IN  Resolved(from_timecode_range_approx(
                     clip.original_timecode.source_tc_in,
                     clip.original_timecode.source_tc_out,
                     cfg.edl_rate, cfg.ignore_invalid_timecode_errors))

\* resolve_timings_for_event_items, second loop, for one clip
resolve_clip(clip, record, cfg) ==
    LET clip_has_timing_effect ==
            \E i \in 1..Len(clip.effects) : IsTimeEffect(clip.effects[i])
        Resolved(src) ==
            LET calculated_src_duration == rescaled_to(record.range.duration,
                                                       src.range.start_time.r)
                durations_match == record.range.duration.t = src.range.duration.t
            IN  [clip EXCEPT
                    !.source_range = TimeRange(src.range.start_time,
                                               calculated_src_duration),
                    !.had_timecode_mismatch =
                        /\ ~durations_match
                        /\ ~duration_is_implicit(clip)
                        /\ ~clip_has_timing_effect,
                    !.timecode_was_adjusted = record.adjusted \/ src.adjusted]
    IN  Resolved(from_timecode_range_approx(
                     clip.original_timecode.source_tc_in,
                     clip.original_timecode.source_tc_out,
                     cfg.edl_rate, cfg.ignore_invalid_timecode_errors))

SelectClips(items) == SelectSeq(items, IsClip)

\* how many of the first i items are clips
ClipOrdinal(items, i) == Len(SelectClips(SubSeq(items, 1, i)))

RECURSIVE SumRangeDurations(_, _)
\* sum((r.duration for r in clip_record_ranges), RationalTime(0, edit_rate))
SumRangeDurations(ranges, zero) ==
    IF ranges = <<>> THEN zero
    ELSE TimeAdd(SumRangeDurations(SubSeq(ranges, 1, Len(ranges) - 1), zero),
                 ranges[Len(ranges)].range.duration)

\* the range resolve_timings_for_event_items returns
event_timeline_range(ranges, edl_rate) ==
    TimeRange(ranges[1].range.start_time,
              SumRangeDurations(ranges, RationalTime(0, edl_rate)))

\* EDLReader.resolve_timings_for_event_items: the items with every clip's
\* source range set, and the range the event occupies; a timecode that does
\* not parse is a ValueError
resolve_timings_for_event_items(items, cfg) ==
    LET Resolved(clips, ranges) ==
            LET sources_ok ==
                    \A k \in 1..Len(clips) :
                        from_timecode_range_approx(
                            clips[k].original_timecode.source_tc_in,
                            clips[k].original_timecode.source_tc_out,
                            cfg.edl_rate, cfg.ignore_invalid_timecode_errors).ok
            IN  [error |-> IF (\A k \in 1..Len(ranges) : ranges[k].ok) /\ sources_ok
                           THEN "" ELSE "ValueError",
                 items |-> [i \in 1..Len(items) |->
                               IF IsClip(items[i])
                               THEN resolve_clip(items[i], ranges[ClipOrdinal(items, i)],
                                                 cfg)
                               ELSE items[i]],
                 timeline_range |-> event_timeline_range(ranges, cfg.edl_rate)]
    IN  Resolved(SelectClips(items), clip_record_ranges(SelectClips(items), cfg))

(***************************************************************************)
(* Merging of continuous clips.                                            *)
(***************************************************************************)
RECURSIVE net_time_scalar(_)
\* the product of the time scalars of a clip's LinearTimeWarp effects (a
\* FreezeFrame is one, of scalar 0), as a fraction <<numerator, denominator>>
net_time_scalar(effects) ==
    IF effects = <<>> THEN <<1, 1>>
    ELSE LET rest == net_time_scalar(Tail(effects))
         IN  IF IsTimeEffect(Head(effects))
             THEN <<Head(effects).speed * rest[1], Head(effects).rate * rest[2]>>
             ELSE rest

\* _clips_are_continuous: "yes", "no", or the AttributeError raised when
\* clip_2 is a Transition, which has no media_reference
clips_are_continuous(clip_1, clip_2) ==
    LET s1 == net_time_scalar(clip_1.effects)
        s2 == net_time_scalar(clip_2.effects)
    IN  IF clip_1.reel # clip_2.reel THEN "no"
        ELSE IF ~IsClip(clip_2) THEN "AttributeError"
        ELSE IF clip_1.media_reference.type # clip_2.media_reference.type THEN "no"
        ELSE IF end_time_exclusive(clip_1.source_range).t # clip_2.source_range.start_time.t
        THEN "no"
        ELSE IF s1[1] * s2[2] = s2[1] * s1[2] THEN "yes" ELSE "no"

\* _should_merge_clip_to_track
should_merge_clip_to_track(clip, children) ==
    IF children = <<>> THEN "no"
    ELSE IF ~IsClip(children[Len(children)]) THEN "no"
    ELSE IF ItemDuration(clip).t = 0
    THEN clips_are_continuous(children[Len(children)], clip)
    ELSE IF Len(children) < 2 THEN "no"
    ELSE IF ~IsTransition(children[Len(children) - 1]) THEN "no"
    ELSE clips_are_continuous(children[Len(children)], clip)

RECURSIVE union_events(_, _)
\* the appended clip's event numbers added to the existing ones, once each
union_events(existing_events, events) ==
    IF events = <<>> THEN existing_events
    ELSE union_events(IF \E i \in 1..Len(existing_events) : existing_events[i] = Head(events)
                      THEN existing_events
                      ELSE Append(existing_events, Head(events)),
                      Tail(events))

\* the existing clip after appending_clip is merged into it
merged_clip(existing_clip, appending_clip) ==
    LET added_time == rescaled_to(ItemDuration(appending_clip),
                                  existing_clip.source_range.duration.r)
    IN  [existing_clip EXCEPT
            !.source_range = TimeRange(existing_clip.source_range.start_time,
                                       TimeAdd(existing_clip.source_range.duration,
                                               added_time)),
            !.events = union_events(existing_clip.events, appending_clip.events)]

(***************************************************************************)
(* Track placement.  The reader's fields are carried in a record rd:       *)
(* timelines, tracks_by_name and video_tracks (tracks are named by their   *)
(* index in the current timeline), handled_timeline_init,                  *)
(* current_timeline_start_offset and the exception raised, if any.         *)
(***************************************************************************)
CHANNEL_MAP ==
    [channel_code \in {"A", "AA", "B", "A2/V", "AA/V"} |->
        CASE channel_code = "A" -> <<"A1">>
          [] channel_code = "AA" -> <<"A1", "A2">>
          [] channel_code = "B" -> <<"V", "A1">>
          [] channel_code = "A2/V" -> <<"V", "A2">>
          [] OTHER -> <<"V", "A1", "A2">>]

\* track names that start with "A"
AudioTrackNames == {"A", "A1", "A2", "A3", "A4", "AA", "A2/V", "AA/V"}

\* _guess_kind_for_track_name
guess_kind_for_track_name(name) ==
    IF name \in AudioTrackNames THEN "Audio" ELSE "Video"

\* f"V{n}"
OverlayTrackName(n) ==
    <<"V1", "V2", "V3", "V4", "V5", "V6", "V7", "V8", "V9", "V10", "V11", "V12",
      "V13", "V14", "V15", "V16">>[n]

Timeline(name) ==
    [name |-> name,
     tracks |-> <<>>,
     global_start_time |-> <<>>,
     edl_rate |-> <<>>,
     comments |-> <<>>,
     parsing_info |-> <<>>,
     timecode_was_adjusted |-> FALSE]

Track(name, kind) == [name |-> name, kind |-> kind, children |-> <<>>]

current_timeline(rd) == rd.timelines[Len(rd.timelines)]

CurrentTracks(rd) == current_timeline(rd).tracks

\* EDLReader.add_track
add_track(rd, track) ==
    LET index == Len(CurrentTracks(rd)) + 1
    IN  [rd EXCEPT
            !.timelines[Len(rd.timelines)].tracks = Append(@, track),
            !.tracks_by_name = [n \in DOMAIN rd.tracks_by_name \cup {track.name} |->
                                   IF n = track.name THEN index ELSE rd.tracks_by_name[n]],
            !.video_tracks = IF track.kind = "Video" THEN Append(@, index) ELSE @]

\* the track of a name, created when the reader has none of that name
track_for_name(rd, track_name) ==
    IF track_name \in DOMAIN rd.tracks_by_name THEN rd
    ELSE LET track == Track(track_name, guess_kind_for_track_name(track_name))
             listed == IF track.kind = "Video"
                       THEN [rd EXCEPT !.video_tracks =
                                Append(@, Len(CurrentTracks(rd)) + 1)]
                       ELSE rd
         IN  add_track(listed, track)

relative_start_time(rd, timeline_range) ==
    TimeSub(timeline_range.start_time, rd.current_timeline_start_offset[1])

\* the check for overlaps of tracks_for_channel: the track has content
\* after the event's start, and children in the event's range
has_existing_content(rd, index, timeline_range) ==
    /\ relative_start_time(rd, timeline_range).t
           < TrackDuration(CurrentTracks(rd)[index].children).t
    /\ children_in_range(CurrentTracks(rd)[index].children, timeline_range) # <<>>

\* the positions in video_tracks of the other video tracks that have no
\* children in the range
FreeOverlays(rd, index, timeline_range) ==
    {j \in 1..Len(rd.video_tracks) :
        /\ rd.video_tracks[j] # index
        /\ children_in_range(CurrentTracks(rd)[rd.video_tracks[j]].children,
                             timeline_range) = <<>>}

Minimum(S) == CHOOSE x \in S : \A y \in S : x <= y

\* tracks_for_channel, for one track name: the reader and the chosen track
track_for_channel_name(rd, track_name, timeline_range) ==
    LET Overlay(named, free) ==
            IF free # {}
            THEN [rd |-> named, track |-> named.video_tracks[Minimum(free)]]
            ELSE [rd |-> add_track(named,
                                   Track(OverlayTrackName(Len(named.video_tracks) + 1),
                                         "Video")),
                  track |-> Len(CurrentTracks(named)) + 1]
        Chosen(named, index) ==
            IF ~has_existing_content(named, index, timeline_range)
            THEN [rd |-> named, track |-> index]
            ELSE IF CurrentTracks(named)[index].kind = "Video"
            THEN Overlay(named, FreeOverlays(named, index, timeline_range))
            ELSE [rd |-> [named EXCEPT !.error = "EDLParseError: existing content"],
                  track |-> index]
        Named(named) == Chosen(named, named.tracks_by_name[track_name])
    IN  Named(track_for_name(rd, track_name))

\* EDLReader.tracks_for_channel's list of track names
track_names_for_channel(channel_code) ==
    IF channel_code \in DOMAIN CHANNEL_MAP THEN CHANNEL_MAP[channel_code]
    ELSE <<channel_code>>

RECURSIVE tracks_for_names(_, _, _, _)
tracks_for_names(rd, track_names, timeline_range, out_tracks) ==
    IF track_names = <<>> \/ rd.error # "" THEN [rd |-> rd, out_tracks |-> out_tracks]
    ELSE LET Rest(one) == tracks_for_names(one.rd, Tail(track_names), timeline_range,
                                           Append(out_tracks, one.track))
         IN  Rest(track_for_channel_name(rd, Head(track_names), timeline_range))

\* EDLReader.tracks_for_channel
tracks_for_channel(rd, channel_code, timeline_range) ==
    tracks_for_names(rd, track_names_for_channel(channel_code), timeline_range, <<>>)

\* the items left to append after the merge step of place_items_in_timeline
\* (the slice items[1:] is kept for the tracks that follow)
items_after_merge(items) == Tail(items)

\* place_items_in_timeline, the body of the loop for one destination track:
\* the reader and the items as the next track finds them
place_on_track(rd, items, timeline_range, index) ==
    LET Placed(children, gap, needs_gap, merge, kept) ==
            IF ~needs_gap /\ items = <<>>
            THEN [rd |-> [rd EXCEPT !.error = "IndexError"], items |-> items]
            ELSE IF merge = "AttributeError"
            THEN [rd |-> [rd EXCEPT !.error = "AttributeError"], items |-> items]
            ELSE [rd |-> [rd EXCEPT
                             !.timelines[Len(rd.timelines)].tracks[index].children =
                                 IF needs_gap THEN Append(children, gap) \o kept
                                 ELSE IF merge = "yes"
                                 THEN [children EXCEPT ![Len(children)] =
                                          merged_clip(@, items[1])] \o kept
                                 ELSE children \o kept],
                  items |-> kept]
        Merged(children, gap, needs_gap, merge) ==
            Placed(children, gap, needs_gap, merge,
                   IF merge = "yes" THEN items_after_merge(items) ELSE items)
        Gapped(children, gap, needs_gap) ==
            Merged(children, gap, needs_gap,
                   IF needs_gap \/ items = <<>> THEN "no"
                   ELSE should_merge_clip_to_track(items[1], children))
        Started(children, start, duration) ==
            Gapped(children, Gap(TimeSub(start, duration)), start.t > duration.t)
        Children(children) ==
            Started(children, relative_start_time(rd, timeline_range),
                    TrackDuration(children))
    IN  Children(CurrentTracks(rd)[index].children)

RECURSIVE place_on_tracks(_, _, _, _)
place_on_tracks(rd, items, timeline_range, target_tracks) ==
    IF target_tracks = <<>> \/ rd.error # "" THEN rd
    ELSE LET Rest(one) == place_on_tracks(one.rd, one.items, timeline_range,
                                          Tail(target_tracks))
         IN  Rest(place_on_track(rd, items, timeline_range, Head(target_tracks)))

\* EDLReader.place_items_in_timeline
place_items_in_timeline(rd, items, timeline_range, channels) ==
    LET offset == IF rd.current_timeline_start_offset = <<>>
                  THEN [rd EXCEPT !.current_timeline_start_offset =
                           <<timeline_range.start_time>>]
                  ELSE rd
        Placed(target) ==
            IF target.rd.error # ""
            THEN [target.rd EXCEPT !.error = "EDLParseError: Overlapping record in value"]
            ELSE place_on_tracks(target.rd, items, timeline_range, target.out_tracks)
    IN  Placed(tracks_for_channel(offset, channels, timeline_range))

(***************************************************************************)
(* EDLReader.process_event_statements.                                     *)
(***************************************************************************)
IsStandardForm(statement) == statement.kind = "StandardFormStatement"
IsNoteForm(statement) == statement.kind = "NoteFormStatement"

IsNonMotionNote(statement) ==
    IsNoteForm(statement) /\ statement_identifier(statement) # "M2"

IsMotionStatement(statement) ==
    IsNoteForm(statement) /\ statement_identifier(statement) \in {"M2", "* FREEZE FRAME"}

\* MotionDirective.from_string on the data of the M2 notes of the inputs:
\* the reel and the speed (frames per second)
MotionDirectives ==
    [data \in {"CLPA 048.0 00:00:04:17", "CLPB 000.0 00:00:06:18", "ZZZZ 012.0 00:00:00:00"} |->
        CASE data = "CLPA 048.0 00:00:04:17" -> [reel |-> "CLPA", speed |-> 48]
          [] data = "CLPB 000.0 00:00:06:18" -> [reel |-> "CLPB", speed |-> 0]
          [] OTHER -> [reel |-> "ZZZZ", speed |-> 12]]

\* clip names that end with " FF", and the name without it
FreezeFrameNames ==
    [text \in {"Z682_156 (LAY3) FF"} |-> "Z682_156 (LAY3)"]

explicit_edit_number_present(statements) ==
    \E i \in 1..Len(statements) :
        ~statements[i].is_edit_number_inferred /\ statements[i].edit_number # NoneEdit

RECURSIVE StatementTexts(_)
StatementTexts(statements) ==
    IF statements = <<>> THEN <<>>
    ELSE IF IsNoteForm(Head(statements))
    THEN <<statement_text(Head(statements))>> \o StatementTexts(Tail(statements))
    ELSE StatementTexts(Tail(statements))

\* setdefault(statement.channels, []).append(item): by_channels keeps the
\* channel codes in the order they were first seen
append_to_channel(by_channels, channels, item) ==
    IF \E c \in 1..Len(by_channels) : by_channels[c].channels = channels
    THEN [c \in 1..Len(by_channels) |->
             IF by_channels[c].channels = channels
             THEN [by_channels[c] EXCEPT !.items = Append(@, item)]
             ELSE by_channels[c]]
    ELSE Append(by_channels, [channels |-> channels, items |-> <<item>>])

\* the mutation of handle_timeline_init that does not look at
\* handled_timeline_init: every statement sets the global start time
handle_timeline_init_every_statement(rd, statement, cfg) ==
    LET tl == Len(rd.timelines)
        Started(start) ==
            [rd EXCEPT
                !.handled_timeline_init = TRUE,
                !.timelines[tl].edl_rate = <<cfg.edl_rate>>,
                !.timelines[tl].global_start_time = IF start.ok THEN <<start.time>> ELSE @,
                !.timelines[tl].timecode_was_adjusted = start.ok /\ start.adjusted,
                !.timelines[tl].parsing_info =
                    IF start.ok THEN @ ELSE Append(@, statement.sync_entry)]
    IN  Started(from_timecode_approx(statement.sync_entry, cfg.edl_rate,
                                     cfg.ignore_invalid_timecode_errors))

\* the timeline-level step of the statement loop: the global start time is
\* the record-in of the first statement, left unset when it does not parse
handle_timeline_init(rd, statement, cfg) ==
    LET tl == Len(rd.timelines)
        Started(start) ==
            [rd EXCEPT
                !.handled_timeline_init = TRUE,
                !.timelines[tl].edl_rate = <<cfg.edl_rate>>,
                !.timelines[tl].global_start_time = IF start.ok THEN <<start.time>> ELSE @,
                !.timelines[tl].timecode_was_adjusted = start.ok /\ start.adjusted,
                !.timelines[tl].parsing_info =
                    IF start.ok THEN @ ELSE Append(@, statement.sync_entry)]
    IN  IF rd.handled_timeline_init THEN rd
        ELSE Started(from_timecode_approx(statement.sync_entry, cfg.edl_rate,
                                          cfg.ignore_invalid_timecode_errors))

\* the body of the loop over the standard-form statements, for the
\* statement at source_idx (from 1); st is [rd, by_channels]
process_standard_statement(st, statement, source_idx, has_transition, comments, cfg) ==
    LET is_from_clip == ~has_transition \/ source_idx = 1
        Made(clip, error) ==
            IF error # "" THEN [st EXCEPT !.rd.error = error]
            ELSE [rd |-> handle_timeline_init(st.rd, statement, cfg),
                  by_channels |->
                      append_to_channel(
                          IF effect_type(statement) # "C"
                          THEN append_to_channel(st.by_channels, statement.channels,
                                   make_transition(statement, statement.line_number, clip,
                                                   comments, cfg.edl_rate))
                          ELSE st.by_channels,
                          statement.channels, clip)]
    IN  Made(make_clip(statement, statement.line_number, comments, is_from_clip),
             IF make_clip_raises(statement, comments, is_from_clip, cfg)
             THEN "ValueError"
             ELSE IF effect_type(statement) = "None" THEN "AttributeError"
             ELSE IF effect_type(statement) # "C" THEN make_transition_error(statement)
             ELSE "")

RECURSIVE process_standard_statements(_, _, _, _, _, _)
process_standard_statements(st, statements, source_idx, has_transition, comments, cfg) ==
    IF source_idx > Len(statements) \/ st.rd.error # "" THEN st
    ELSE process_standard_statements(
             process_standard_statement(st, statements[source_idx], source_idx,
                                        has_transition, comments, cfg),
             statements, source_idx + 1, has_transition, comments, cfg)

\* the places <<c, i>> of the clips of the event, in the order of event_clips
EventClipPlaces(by_channels) ==
    LET Places(c) == SelectSeq([i \in 1..Len(by_channels[c].items) |-> <<c, i>>],
                               LAMBDA place : IsClip(by_channels[c].items[place[2]]))
        Upto[c \in 0..Len(by_channels)] ==
            IF c = 0 THEN <<>> ELSE Upto[c - 1] \o Places(c)
    IN  Upto[Len(by_channels)]

\* EDLReader.apply_timing_effect
apply_timing_effect(statement, clip, edl_rate) ==
    IF statement_identifier(statement) = "* FREEZE FRAME"
    THEN IF clip.name.text \in DOMAIN FreezeFrameNames
         THEN [clip EXCEPT !.name.text = FreezeFrameNames[clip.name.text]]
         ELSE clip
    ELSE IF MotionDirectives[statement.data].speed = 0
    THEN [clip EXCEPT !.effects = Append(@, [kind |-> "FreezeFrame", speed |-> 0,
                                            rate |-> edl_rate])]
    ELSE [clip EXCEPT !.effects =
              Append(@, [kind |-> "LinearTimeWarp",
                         speed |-> MotionDirectives[statement.data].speed,
                         rate |-> edl_rate])]

\* the mutation of apply_motion_statement that does not look for the reel:
\* the effect goes to the first clip of the event
apply_motion_statement_first_clip(st, statement, cfg) ==
    LET Placed(places) ==
            IF places = <<>> THEN [st EXCEPT !.rd.error = "IndexError"]
            ELSE IF statement_identifier(statement) = "M2"
                    /\ statement.data \notin DOMAIN MotionDirectives
            THEN [st EXCEPT !.rd.error = "EDLParseError: Unsupported M2 Effect format"]
            ELSE [st EXCEPT !.by_channels[places[1][1]].items[places[1][2]] =
                                apply_timing_effect(statement, @, cfg.edl_rate)]
    IN  Placed(EventClipPlaces(st.by_channels))

\* the loop over the motion statements, for one of them: the effect goes to
\* the first clip of the directive's reel, or to the first clip of the event
apply_motion_statement(st, statement, cfg) ==
    LET ClipAt(place) == st.by_channels[place[1]].items[place[2]]
        Applied(chosen) ==
            [st EXCEPT !.by_channels[chosen[1]].items[chosen[2]] =
                           apply_timing_effect(statement, @, cfg.edl_rate)]
        Matched(places, matches) ==
            Applied(IF statement_identifier(statement) = "* FREEZE FRAME" \/ matches = {}
                    THEN places[1] ELSE places[Minimum(matches)])
        Placed(places) ==
            IF places = <<>> THEN [st EXCEPT !.rd.error = "IndexError"]
            ELSE IF statement_identifier(statement) = "M2"
                    /\ statement.data \notin DOMAIN MotionDirectives
            THEN [st EXCEPT !.rd.error = "EDLParseError: Unsupported M2 Effect format"]
            ELSE Matched(places,
                         {k \in 1..Len(places) :
                             ClipAt(places[k]).reel =
                                 MotionDirectives[statement.data].reel})
    IN  Placed(EventClipPlaces(st.by_channels))

RECURSIVE apply_motion_statements(_, _, _)
apply_motion_statements(st, motion_statements, cfg) ==
    IF motion_statements = <<>> \/ st.rd.error # "" THEN st
    ELSE apply_motion_statements(apply_motion_statement(st, Head(motion_statements), cfg),
                                 Tail(motion_statements), cfg)

RECURSIVE place_channels(_, _, _, _)
\* the last loop of process_event_statements: each channel's items are
\* resolved and placed; resolved collects what the resolver returned
place_channels(rd, by_channels, resolved, cfg) ==
    IF by_channels = <<>> \/ rd.error # "" THEN [rd |-> rd, resolved |-> resolved]
    ELSE LET Placed(timing) ==
                 IF timing.error # ""
                 THEN [rd |-> [rd EXCEPT !.error = timing.error], resolved |-> resolved]
                 ELSE place_channels(
                          place_items_in_timeline(rd, timing.items, timing.timeline_range,
                                                  Head(by_channels).channels),
                          Tail(by_channels),
                          Append(resolved, [channels |-> Head(by_channels).channels,
                                            items |-> timing.items,
                                            timeline_range |-> timing.timeline_range]),
                          cfg)
         IN  Placed(resolve_timings_for_event_items(Head(by_channels).items, cfg))

\* EDLReader.process_event_statements
process_event_statements(rd, statements, cfg) ==
    LET Placed(moved) ==
            IF moved.rd.error # "" THEN [rd |-> moved.rd, resolved |-> <<>>]
            ELSE place_channels(moved.rd, moved.by_channels, <<>>, cfg)
        Built(comments, standard_form_statements, has_transition) ==
            Placed(apply_motion_statements(
                       process_standard_statements([rd |-> rd, by_channels |-> <<>>],
                           standard_form_statements, 1, has_transition, comments, cfg),
                       SelectSeq(statements, IsMotionStatement), cfg))
        Standard(standard_form_statements) ==
            Built(EventComments(SelectSeq(statements, IsNonMotionNote)),
                  standard_form_statements,
                  \E i \in 1..Len(standard_form_statements) :
                      standard_form_statements[i].edit_type # "C")
    IN  IF statements = <<>> THEN [rd |-> rd, resolved |-> <<>>]
        ELSE IF ~explicit_edit_number_present(statements)
        THEN [rd |-> [rd EXCEPT !.timelines[Len(rd.timelines)].comments =
                                    @ \o StatementTexts(statements)],
              resolved |-> <<>>]
        ELSE Standard(SelectSeq(statements, IsStandardForm))

\* process_event_statements: the EventComments it builds from the notes of
\* the event, none when it returns before building them
comments_of_event(previous, statements) ==
    IF statements = <<>> \/ ~explicit_edit_number_present(statements) THEN previous
    ELSE EventComments(SelectSeq(statements, IsNonMotionNote))

(***************************************************************************)
(* The reader as a state machine: read_from_string constructs an EDLReader *)
(* and load_from_statements consumes the statements one at a time.         *)
(***************************************************************************)
VARIABLES
    family,                         \* which kind of document is being read
    edl_rate,                       \* EDLReader._edl_rate
    ignore_invalid_timecode_errors, \* EDLReader.ignore_invalid_timecode_errors
    doc,                            \* the statements consumed so far
    timelines,                      \* EDLReader.timelines
    tracks_by_name,                 \* EDLReader.tracks_by_name
    video_tracks,                   \* EDLReader.video_tracks
    handled_timeline_init,          \* EDLReader.handled_timeline_init
    current_timeline_start_offset,  \* EDLReader.current_timeline_start_offset
    event_statements,               \* load_from_statements: event_statements
    current_event,                  \* load_from_statements: current_event
    resolved,                       \* what the resolver returned for the last event
    event_comments,                 \* process_event_statements: comments, of the last event
    processed_events,               \* the arguments of the calls of process_event_statements
    status,                         \* "reading", "returned" or "raised"
    error,                          \* the exception that ended the read
    returned,                       \* the kind of object read_from_string returned
    edl_lines,                      \* statements_from_lines: the lines consumed
    lexer,                          \* statements_from_lines: its locals
    yielded                         \* statements_from_lines: the statements yielded

readerVars == <<edl_rate, ignore_invalid_timecode_errors, doc, timelines, tracks_by_name,
                video_tracks, handled_timeline_init, current_timeline_start_offset,
                event_statements, current_event, resolved, event_comments, processed_events,
                status, error,
                returned>>

lexerVars == <<edl_lines, lexer, yielded>>

vars == <<family, readerVars, lexerVars>>

tc(seconds, frames) == <<0, 0, seconds, frames>>

AtHour(hours, timecode) == <<hours, timecode[2], timecode[3], timecode[4]>>

\* a document of one video channel code whose events follow each other
\* without a hole, with a dissolve and a wipe
ContiguousStatements(channels) ==
    {StandardFormStatement(<<0, 0, 1>>, "CLPA", channels, "C", NoneParam,
                           tc(4, 17), tc(7, 2), tc(0, 0), tc(2, 9)),
     StandardFormStatement(<<0, 0, 2>>, "CLPA", channels, "C", NoneParam,
                           tc(7, 2), tc(7, 2), tc(2, 9), tc(2, 9)),
     StandardFormStatement(<<0, 0, 2>>, "CLPB", channels, "D", <<0, 2, 7>>,
                           tc(6, 18), tc(7, 21), tc(2, 9), tc(3, 12)),
     StandardFormStatement(<<0, 0, 3>>, "CLPB", channels, "C", NoneParam,
                           tc(7, 21), tc(15, 21), tc(3, 12), tc(11, 12)),
     StandardFormStatement(<<0, 0, 3>>, "AX", channels, "W001", <<0, 1, 0>>,
                           tc(0, 0), tc(1, 0), tc(11, 12), tc(12, 12)),
     StandardFormStatement(<<0, 0, 4>>, "AX", channels, "D", <<0, 0, 5>>,
                           tc(1, 0), tc(1, 12), tc(12, 12), tc(13, 0)),
     NoteFormStatement(NoneEdit, TRUE, TRUE, "FROM CLIP NAME", "clipA.mov"),
     NoteFormStatement(NoneEdit, TRUE, FALSE, "M2", "CLPB 000.0 00:00:06:18")}

\* events on a video and an audio channel whose record ranges overlap,
\* touch or leave holes, from a record start at the given hour
OverlappingStatements(hours) ==
    {StandardFormStatement(edit[1], edit[2], channels, "C", NoneParam,
                           tc(0, 0), tc(0, edit[4] - edit[3]),
                           AtHour(hours, tc(0, edit[3])), AtHour(hours, tc(0, edit[4]))) :
        channels \in {"V", "A"},
        edit \in {<<<<1>>, "R1", 0, 10>>, <<<<2>>, "R2", 5, 15>>,
                  <<<<2>>, "R3", 20, 23>>, <<<<3>>, "R4", 15, 20>>}}

TitledStatements ==
    {NoteFormStatement(NoneEdit, TRUE, FALSE, "TITLE", "A"),
     NoteFormStatement(NoneEdit, TRUE, FALSE, "TITLE", "B"),
     NoteFormStatement(NoneEdit, TRUE, FALSE, "TITLE", ""),
     NoteFormStatement(NoneEdit, TRUE, FALSE, "FCM", "NON-DROP FRAME"),
     NoteFormStatement(NoneEdit, TRUE, FALSE, "SPLIT", "VIDEO DELAY= 00:00:00:01"),
     NoteFormStatement(NoneEdit, TRUE, TRUE, "FROM CLIP NAME", "clipA.mov"),
     StandardFormStatement(<<0, 0, 1>>, "CLPA", "V", "C", NoneParam,
                           tc(4, 17), tc(7, 2), tc(0, 0), tc(2, 9)),
     StandardFormStatement(<<0, 0, 2>>, "CLPB", "V", "C", NoneParam,
                           tc(7, 21), tc(15, 21), tc(2, 9), tc(10, 9))}

\* events whose timecodes need resolving: an implicit record range before a
\* later statement of its event, a frame field beyond the rate in a source
\* and in a record timecode, source and record durations that disagree,
\* timecodes given as frame counts, and a source timecode of three fields
\* before one whose frame field is beyond every known rate
TimingStatements ==
    {StandardFormStatement(<<0, 0, 1>>, "CLPC", "V", "C", NoneParam,
                           tc(0, 0), tc(0, 0), tc(0, 0), tc(0, 0)),
     StandardFormStatement(<<0, 0, 1>>, "CLPD", "V", "C", NoneParam,
                           tc(1, 0), tc(2, 0), tc(1, 0), tc(2, 0)),
     StandardFormStatement(<<0, 0, 2>>, "CLPE", "V", "C", NoneParam,
                           tc(1, 25), tc(2, 25), tc(2, 0), tc(3, 0)),
     StandardFormStatement(<<0, 0, 3>>, "CLPF", "V", "C", NoneParam,
                           tc(0, 0), tc(0, 10), tc(3, 0), tc(4, 0)),
     StandardFormStatement(<<0, 0, 4>>, "CLPG", "A", "C", NoneParam,
                           tc(0, 0), tc(0, 20), tc(4, 0), tc(4, 25)),
     StandardFormStatement(<<0, 0, 5>>, "CLPH", "V", "C", NoneParam,
                           <<0>>, <<24>>, <<120>>, <<144>>),
     StandardFormStatement(<<0, 0, 6>>, "CLPI", "V", "C", NoneParam,
                           <<0, 0, 1>>, tc(1, 61), tc(5, 0), tc(6, 0))}

\* an event with notes: color decisions with 8 and with 9 values, two notes
\* that name the media, a locator and a locator without a timecode
NotedStatements ==
    {StandardFormStatement(<<0, 0, 1>>, "CLPA", "V", "C", NoneParam,
                           tc(4, 17), tc(7, 2), tc(0, 0), tc(2, 9)),
     NoteFormStatement(NoneEdit, TRUE, TRUE, "ASC_SOP", "(1.0 1.0 1.0)(0.0 0.0 0.0)(1.0 1.0)"),
     NoteFormStatement(NoneEdit, TRUE, TRUE, "ASC_SOP", "(1.0 1.0 1.0)(0.0 0.0 0.0)(1.0 1.0 1.0)"),
     NoteFormStatement(NoneEdit, TRUE, TRUE, "FROM CLIP", "clipA.mov"),
     NoteFormStatement(NoneEdit, TRUE, TRUE, "FROM FILE", "fileB.mov"),
     NoteFormStatement(NoneEdit, TRUE, TRUE, "LOC", "01:00:01:14 RED ANIM FIX NEEDED"),
     NoteFormStatement(NoneEdit, TRUE, TRUE, "LOC", "RED")}

\* events whose statements spell their edit number with different zero
\* padding: 001, 1 and 0001, 002 and 2, and 010; the statements of 002 and
\* of 010 continue the clip of 001 and have no duration
PaddedStatements ==
    {StandardFormStatement(<<0, 0, 1>>, "CLPA", "V", "C", NoneParam,
                           tc(0, 0), tc(1, 0), tc(0, 0), tc(1, 0)),
     StandardFormStatement(<<1>>, "CLPA", "A", "C", NoneParam,
                           tc(0, 0), tc(1, 0), tc(0, 0), tc(1, 0)),
     NoteFormStatement(<<0, 0, 0, 1>>, FALSE, TRUE, "FROM CLIP", "clipA.mov"),
     StandardFormStatement(<<0, 0, 2>>, "CLPA", "V", "C", NoneParam,
                           tc(1, 0), tc(1, 0), tc(1, 0), tc(1, 0)),
     NoteFormStatement(<<2>>, FALSE, TRUE, "FROM CLIP", "clipB.mov"),
     StandardFormStatement(<<0, 1, 0>>, "CLPA", "V", "C", NoneParam,
                           tc(1, 0), tc(1, 0), tc(1, 0), tc(1, 0))}

\* a cut and statements whose edit type the reader makes no transition for:
\* a key, a sync roll, a dissolve and a wipe without a duration, and an edit
\* type that is no effect type
UnsupportedStatements ==
    {StandardFormStatement(<<0, 0, 1>>, "CLPA", "V", "C", NoneParam,
                           tc(4, 17), tc(7, 2), tc(0, 0), tc(2, 9))}
    \cup {StandardFormStatement(<<0, 0, 2>>, "CLPB", "V", edit[1], edit[2],
                                tc(7, 21), tc(15, 21), tc(2, 9), tc(10, 9)) :
              edit \in {<<"K", <<0, 1, 0>>>>, <<"R", NoneParam>>, <<"D", NoneParam>>,
                        <<"W001", NoneParam>>, <<"ZZ", NoneParam>>}}

\* a document with a statement whose record-out timecode precedes its
\* record-in timecode, and a statement whose record-in timecode lacks a
\* field
ReversedStatements ==
    {StandardFormStatement(<<0, 0, 1>>, "CLPA", "V", "C", NoneParam,
                           tc(4, 0), tc(5, 0), tc(0, 0), tc(1, 0)),
     StandardFormStatement(<<0, 0, 2>>, "CLPB", "V", "C", NoneParam,
                           tc(5, 0), tc(6, 0), tc(2, 0), tc(1, 0)),
     StandardFormStatement(<<0, 0, 3>>, "CLPC", "A", "C", NoneParam,
                           tc(6, 0), tc(7, 0), tc(1, 0), tc(2, 0)),
     StandardFormStatement(<<0, 0, 3>>, "CLPC", "V", "D", <<0, 1, 2>>,
                           tc(7, 0), tc(8, 0), tc(2, 0), tc(3, 0)),
     StandardFormStatement(<<0, 0, 4>>, "CLPD", "V", "C", NoneParam,
                           tc(8, 0), tc(9, 0), <<0, 0, 3>>, tc(4, 0))}

\* events of clips whose source durations differ from their record
\* durations, and M2 notes for their reels and for a reel of no clip
MotionStatements ==
    {StandardFormStatement(<<0, 0, 1>>, "CLPA", "V", "C", NoneParam,
                           tc(0, 0), tc(2, 0), tc(0, 0), tc(1, 0)),
     StandardFormStatement(<<0, 0, 1>>, "CLPB", "A", "C", NoneParam,
                           tc(0, 0), tc(2, 0), tc(0, 0), tc(1, 0)),
     StandardFormStatement(<<0, 0, 2>>, "CLPB", "V", "C", NoneParam,
                           tc(2, 0), tc(4, 0), tc(1, 0), tc(2, 0)),
     NoteFormStatement(NoneEdit, TRUE, FALSE, "M2", "CLPA 048.0 00:00:04:17"),
     NoteFormStatement(NoneEdit, TRUE, FALSE, "M2", "CLPB 000.0 00:00:06:18"),
     NoteFormStatement(NoneEdit, TRUE, FALSE, "M2", "ZZZZ 012.0 00:00:00:00")}

Families == {"video", "both", "audio pair", "overlaps", "overlaps from 1 hour", "titles",
             "timing", "tolerant timing", "notes", "padding", "unsupported", "reversed",
             "motion"}

Statements(f) ==
    CASE f = "video" -> ContiguousStatements("V")
      [] f = "both" -> ContiguousStatements("B")
      [] f = "audio pair" -> ContiguousStatements("AA")
      [] f = "overlaps" -> OverlappingStatements(0)
      [] f = "overlaps from 1 hour" -> OverlappingStatements(1)
      [] f = "titles" -> TitledStatements
      [] f \in {"timing", "tolerant timing"} -> TimingStatements
      [] f = "notes" -> NotedStatements
      [] f = "padding" -> PaddedStatements
      [] f = "unsupported" -> UnsupportedStatements
      [] f = "reversed" -> ReversedStatements
      [] f = "motion" -> MotionStatements
      [] OTHER -> {}

\* the statement as the lexer hands it over: it carries its line number, and
\* a statement without an edit number of its own carries the last one seen
LastEditNumber ==
    LET explicit == {i \in 1..Len(doc) : ~doc[i].is_edit_number_inferred}
    IN  IF explicit = {} THEN NoneEdit
        ELSE doc[CHOOSE i \in explicit : \A j \in explicit : j <= i].edit_number

InContext(statement) ==
    [statement EXCEPT
        !.line_number = Len(doc) + 1,
        !.edit_number = IF statement.is_edit_number_inferred THEN LastEditNumber ELSE @]

\* the reader's fields as one record, and back
Reader ==
    [timelines |-> timelines,
     tracks_by_name |-> tracks_by_name,
     video_tracks |-> video_tracks,
     handled_timeline_init |-> handled_timeline_init,
     current_timeline_start_offset |-> current_timeline_start_offset,
     error |-> ""]

Config ==
    [edl_rate |-> edl_rate,
     ignore_invalid_timecode_errors |-> ignore_invalid_timecode_errors]

\* the locals of statements_from_lines before its first line; edit_number is
\* a text here, and "" stands for None (the pattern needs a digit)
NewLexer == [edit_number |-> "", is_virtual_edit |-> FALSE, is_recorded |-> FALSE,
             line_number |-> 0]

\* EDLReader.__init__, and the locals of load_from_statements and of
\* statements_from_lines before their first iteration
Constructed ==
    /\ edl_rate = 24
    /\ ignore_invalid_timecode_errors = (family = "tolerant timing")
    /\ doc = <<>>
    /\ timelines = <<Timeline("")>>
    /\ tracks_by_name = <<>>
    /\ video_tracks = <<>>
    /\ handled_timeline_init = FALSE
    /\ current_timeline_start_offset = <<>>
    /\ event_statements = <<>>
    /\ current_event = NoneEdit
    /\ resolved = <<>>
    /\ event_comments = EventComments(<<>>)
    /\ processed_events = <<>>
    /\ status = "reading"
    /\ error = ""
    /\ returned = "nothing"
    /\ edl_lines = <<>>
    /\ lexer = NewLexer
    /\ yielded = <<>>

Init == family \in Families /\ Constructed

\* the setter of EDLReader.current_timeline
set_current_timeline(rd, new_timeline) ==
    [rd EXCEPT
        !.timelines = Append(@, new_timeline),
        !.tracks_by_name = <<>>,
        !.video_tracks = <<>>,
        !.handled_timeline_init = FALSE,
        !.current_timeline_start_offset = <<>>]

IsTopLevelNote(statement, identifier) ==
    /\ IsNoteForm(statement)
    /\ ~statement.is_comment
    /\ statement_identifier(statement) = identifier

edit_number_changed(statement) ==
    /\ current_event # NoneEdit
    /\ ~statement.is_edit_number_inferred
    /\ normalized_edit_number(statement) # current_event

\* the mutation of the test in which a SPLIT directive starts no event
should_start_new_event_by_number(statement) == edit_number_changed(statement)

should_start_new_event(statement) ==
    IsTopLevelNote(statement, "SPLIT") \/ edit_number_changed(statement)

\* the reader's fields take the values of rd; an exception ends the read
Becomes(rd) ==
    /\ timelines' = rd.timelines
    /\ tracks_by_name' = rd.tracks_by_name
    /\ video_tracks' = rd.video_tracks
    /\ handled_timeline_init' = rd.handled_timeline_init
    /\ current_timeline_start_offset' = rd.current_timeline_start_offset
    /\ error' = rd.error
    /\ status' = IF rd.error # "" THEN "raised" ELSE status

CanRead(statement) ==
    /\ status = "reading"
    /\ Len(doc) < MaxStatements
    /\ statement \in {InContext(s) : s \in Statements(family)}

\* load_from_statements, an iteration that ends at the FCM branch
SkipFCM(statement) ==
    /\ CanRead(statement)
    /\ IsTopLevelNote(statement, "FCM")
    /\ doc' = Append(doc, statement)
    /\ UNCHANGED <<family, edl_rate, ignore_invalid_timecode_errors, timelines,
                   tracks_by_name, video_tracks, handled_timeline_init,
                   current_timeline_start_offset, event_statements, current_event,
                   resolved, event_comments, processed_events, status, error, returned,
                   lexerVars>>

\* load_from_statements, an iteration that ends at the TITLE branch
ReadTitle(statement) ==
    /\ CanRead(statement)
    /\ IsTopLevelNote(statement, "TITLE")
    /\ doc' = Append(doc, statement)
    /\ LET starts_timeline == /\ current_timeline(Reader).name # ""
                              /\ current_timeline(Reader).name # statement.data
           rd == IF starts_timeline THEN set_current_timeline(Reader, Timeline(""))
                 ELSE Reader
       IN  Becomes([rd EXCEPT !.timelines[Len(rd.timelines)].name = statement.data])
    /\ UNCHANGED <<family, edl_rate, ignore_invalid_timecode_errors, event_statements,
                   current_event, resolved, event_comments, processed_events, returned,
                   lexerVars>>

\* load_from_statements, an iteration that adds the statement to the event
\* being accumulated
AccumulateStatement(statement) ==
    /\ CanRead(statement)
    /\ ~IsTopLevelNote(statement, "FCM")
    /\ ~IsTopLevelNote(statement, "TITLE")
    /\ ~should_start_new_event(statement)
    /\ doc' = Append(doc, statement)
    /\ event_statements' = Append(event_statements, statement)
    /\ current_event' = IF current_event = NoneEdit /\ ~statement.is_edit_number_inferred
                        THEN normalized_edit_number(statement)
                        ELSE current_event
    /\ UNCHANGED <<family, edl_rate, ignore_invalid_timecode_errors, timelines,
                   tracks_by_name, video_tracks, handled_timeline_init,
                   current_timeline_start_offset, resolved, event_comments,
                   processed_events, status, error,
                   returned, lexerVars>>

\* load_from_statements, an iteration that starts a new event: the event
\* accumulated so far is processed first
StartNewEvent(statement) ==
    /\ CanRead(statement)
    /\ ~IsTopLevelNote(statement, "FCM")
    /\ ~IsTopLevelNote(statement, "TITLE")
    /\ should_start_new_event(statement)
    /\ doc' = Append(doc, statement)
    /\ \E processed \in {process_event_statements(Reader, event_statements, Config)} :
           /\ Becomes(processed.rd)
           /\ resolved' = IF event_statements = <<>> THEN resolved ELSE processed.resolved
           /\ event_statements' = IF processed.rd.error # "" THEN event_statements
                                  ELSE <<statement>>
           /\ current_event' = IF processed.rd.error # "" THEN current_event
                               ELSE IF statement.is_edit_number_inferred THEN NoneEdit
                               ELSE normalized_edit_number(statement)
    /\ event_comments' = comments_of_event(event_comments, event_statements)
    /\ processed_events' = IF event_statements = <<>> THEN processed_events
                           ELSE Append(processed_events, event_statements)
    /\ UNCHANGED <<family, edl_rate, ignore_invalid_timecode_errors, returned, lexerVars>>

\* load_from_statements after the last statement, and the return of
\* read_from_string
EndOfInput ==
    /\ status = "reading"
    /\ family \in Families
    /\ \E processed \in {process_event_statements(Reader, event_statements, Config)} :
           /\ timelines' = processed.rd.timelines
           /\ tracks_by_name' = processed.rd.tracks_by_name
           /\ video_tracks' = processed.rd.video_tracks
           /\ handled_timeline_init' = processed.rd.handled_timeline_init
           /\ current_timeline_start_offset' = processed.rd.current_timeline_start_offset
           /\ error' = processed.rd.error
           /\ status' = IF processed.rd.error # "" THEN "raised" ELSE "returned"
           /\ resolved' = IF event_statements = <<>> THEN resolved ELSE processed.resolved
           /\ returned' = IF processed.rd.error # "" THEN "nothing"
                          ELSE IF Len(processed.rd.timelines) > 1
                          THEN "SerializableCollection"
                          ELSE "Timeline"
    /\ event_comments' = comments_of_event(event_comments, event_statements)
    /\ processed_events' = IF event_statements = <<>> THEN processed_events
                           ELSE Append(processed_events, event_statements)
    /\ UNCHANGED <<family, edl_rate, ignore_invalid_timecode_errors, doc, event_statements,
                   current_event, lexerVars>>

ReadStatement ==
    \E statement \in {InContext(s) : s \in Statements(family)} :
        \/ SkipFCM(statement)
        \/ ReadTitle(statement)
        \/ AccumulateStatement(statement)
        \/ StartNewEvent(statement)

Next == ReadStatement \/ EndOfInput

Spec == Init /\ [][Next]_vars

(***************************************************************************)
(* The line parser (edl_parser.py).  Lines are texts; a field is a maximal *)
(* run of characters that are not whitespace.                              *)
(***************************************************************************)
Whitespace == {" ", "\t"}
Digits == {"0", "1", "2", "3", "4", "5", "6", "7", "8", "9"}
Letters ==
    {"a", "b", "c", "d", "e", "f", "g", "h", "i", "j", "k", "l", "m", "n", "o", "p", "q",
     "r", "s", "t", "u", "v", "w", "x", "y", "z", "A", "B", "C", "D", "E", "F", "G", "H",
     "I", "J", "K", "L", "M", "N", "O", "P", "Q", "R", "S", "T", "U", "V", "W", "X", "Y",
     "Z"}

\* EffectType values
VALID_EFFECT_TYPES == {"C", "R", "D", "W", "K", "KB", "KO", "M", "F", "Q", "N", "X"}

CharAt(text, i) == SubSeq(text, i, i)

\* text[n:]
Slice(text, n) == SubSeq(text, n + 1, Len(text))

\* the number of characters at the head (tail) of text that are all in chars
Leading(text, chars) ==
    LET stops == {i \in 1..Len(text) : CharAt(text, i) \notin chars}
    IN  IF stops = {} THEN Len(text)
        ELSE (CHOOSE i \in stops : \A j \in stops : i <= j) - 1

Trailing(text, chars) ==
    LET stops == {i \in 1..Len(text) : CharAt(text, i) \notin chars}
    IN  IF stops = {} THEN Len(text)
        ELSE Len(text) - (CHOOSE i \in stops : \A j \in stops : j <= i)

startswith(text, prefix) ==
    Len(text) >= Len(prefix) /\ SubSeq(text, 1, Len(prefix)) = prefix

\* the mutation of strip that leaves the text as it is
strip_nothing(text) == text

\* str.strip()
strip(text) ==
    IF Leading(text, Whitespace) = Len(text) THEN ""
    ELSE SubSeq(text, Leading(text, Whitespace) + 1, Len(text) - Trailing(text, Whitespace))

RECURSIVE fields_of(_)
\* the fields SEPARATOR_RE.split leaves, the empty ones dropped
fields_of(text) ==
    LET Split(rest, width) ==
            <<SubSeq(rest, 1, width)>> \o fields_of(Slice(rest, width))
        Fields(rest) ==
            IF rest = "" THEN <<>>
            ELSE Split(rest, Leading(rest, {CharAt(rest, i) : i \in 1..Len(rest)}
                                               \ Whitespace))
    IN  Fields(Slice(text, Leading(text, Whitespace)))

\* the mutation of EDIT_NUMBER_RE that matches no line
EDIT_NUMBER_RE_unmatched(text) == [matched |-> FALSE]

\* EDIT_NUMBER_RE.match: digits, at most one letter, the virtual edit
\* indicator ">", the recorded indicator ">!", and whitespace after them
EDIT_NUMBER_RE(text) ==
    LET Separated(subfield, indicator, separated) ==
            [matched |-> TRUE,
             edit_number_subfield |-> subfield,
             virtual_edit_indicator |-> indicator \in {">>!", ">"},
             recorded_indicator |-> indicator \in {">>!", ">!"},
             rest |-> Slice(separated, Leading(separated, Whitespace))]
        Indicated(subfield, after, indicator) ==
            Separated(subfield, indicator, Slice(after, Len(indicator)))
        Matched(subfield, after, indicators) ==
            IF subfield = "" \/ indicators = {} THEN [matched |-> FALSE]
            ELSE Indicated(subfield, after, CHOOSE ind \in indicators : TRUE)
        Subfield(width) ==
            Matched(SubSeq(text, 1, width), Slice(text, width),
                    {ind \in {">>!", ">!", ">", ""} :
                        /\ startswith(Slice(text, width), ind)
                        /\ Len(text) - width > Len(ind)
                        /\ CharAt(text, width + Len(ind) + 1) \in Whitespace})
        Digit(digits) ==
            IF digits = 0 THEN [matched |-> FALSE]
            ELSE Subfield(IF digits < Len(text) /\ CharAt(text, digits + 1) \in Letters
                          THEN digits + 1 ELSE digits)
    IN  Digit(Leading(text, Digits))

\* COMMENT_RE.match
COMMENT_RE(text) == startswith(text, "*")

\* _note_form_statement_from_line: STATEMENT_RE takes the comment marker, the
\* whitespace after it, and the text up to its last character that is not a
\* space
note_form_statement_from_line(line, element_context) ==
    LET is_comment == startswith(line, "*")
        Value(value) == SubSeq(value, 1, Len(value) - Trailing(value, {" "}))
        After(after) == Value(Slice(after, Leading(after, Whitespace)))
    IN  [kind |-> "NoteFormStatement",
         statement_text |-> After(IF is_comment THEN Slice(line, 1) ELSE line),
         is_comment |-> is_comment,
         is_supported |-> FALSE,
         line_number |-> element_context.line_number,
         edit_number |-> element_context.edit_number,
         is_edit_number_inferred |-> element_context.is_edit_number_inferred,
         is_recorded |-> element_context.is_recorded,
         is_virtual_edit |-> element_context.is_virtual_edit]

\* the fields of a standard-form line, consumed from the head: the source
\* identification, the channels, the edit type; the channels are cut from
\* the source identification when the field after it is an effect type
head_fields(fields) ==
    LET source_identification == fields[1]
        channels_candidate == fields[2]
        reel_width == IF Len(source_identification) > 32 THEN 32
                      ELSE IF Len(source_identification) > 16 THEN 16
                      ELSE 8
    IN  IF channels_candidate \in VALID_EFFECT_TYPES
        THEN [source_identification |->
                  SubSeq(source_identification, 1,
                         IF Len(source_identification) < reel_width
                         THEN Len(source_identification) ELSE reel_width),
              channels |-> Slice(source_identification,
                                 IF Len(source_identification) < reel_width
                                 THEN Len(source_identification) ELSE reel_width),
              edit_type |-> fields[2],
              consuming_fields |-> SubSeq(fields, 3, Len(fields))]
        ELSE [source_identification |-> source_identification,
              channels |-> channels_candidate,
              edit_type |-> fields[3],
              consuming_fields |-> SubSeq(fields, 4, Len(fields))]

\* one iteration of the loop of statements_from_lines over a line: the
\* locals it leaves, the statements it yields and the error it raises
statements_from_line(locals, line_text) ==
    LET line_number == locals.line_number + 1
        Consumed(after, head, consuming_fields, n) ==
            IF n < 4
            THEN [lexer |-> after, yielded |-> <<>>, error |-> "IndexError"]
            ELSE [lexer |-> after,
                  yielded |-> <<[kind |-> "StandardFormStatement",
                                 source_identification |-> head.source_identification,
                                 channels |-> head.channels,
                                 edit_type |-> head.edit_type,
                                 source_entry |-> consuming_fields[n - 3],
                                 source_exit |-> consuming_fields[n - 2],
                                 sync_entry |-> consuming_fields[n - 1],
                                 sync_exit |-> consuming_fields[n],
                                 is_supported |-> TRUE,
                                 \* "" stands for None: a field is never empty
                                 edit_parameter |-> IF n > 4 THEN consuming_fields[n - 4]
                                                    ELSE "",
                                 line_number |-> line_number,
                                 edit_number |-> after.edit_number,
                                 is_edit_number_inferred |-> FALSE,
                                 is_recorded |-> after.is_recorded,
                                 is_virtual_edit |-> after.is_virtual_edit]>>,
                  error |-> ""]
        Headed(after, head) ==
            Consumed(after, head, head.consuming_fields, Len(head.consuming_fields))
        Split(after, fields) ==
            IF Len(fields) < 6 \/ Len(fields) > 8
            THEN [lexer |-> after, yielded |-> <<>>,
                  error |-> "EDLParseError: incorrect number of fields"]
            ELSE Headed(after, head_fields(fields))
        Context(did_have_edit_number, consuming_line, after) ==
            IF ~did_have_edit_number \/ COMMENT_RE(consuming_line)
            THEN [lexer |-> after,
                  yielded |-> <<note_form_statement_from_line(
                                    consuming_line,
                                    [line_number |-> line_number,
                                     edit_number |-> after.edit_number,
                                     is_edit_number_inferred |-> ~did_have_edit_number,
                                     is_recorded |-> after.is_recorded,
                                     is_virtual_edit |-> after.is_virtual_edit])>>,
                  error |-> ""]
            ELSE Split(after, fields_of(consuming_line))
        Matched(line, edit_number_match) ==
            Context(edit_number_match.matched,
                    IF edit_number_match.matched THEN edit_number_match.rest ELSE line,
                    [edit_number |-> IF edit_number_match.matched
                                     THEN edit_number_match.edit_number_subfield
                                     ELSE locals.edit_number,
                     is_virtual_edit |-> IF edit_number_match.matched
                                         THEN edit_number_match.virtual_edit_indicator
                                         ELSE locals.is_virtual_edit,
                     is_recorded |-> IF edit_number_match.matched
                                     THEN edit_number_match.recorded_indicator
                                     ELSE locals.is_recorded,
                     line_number |-> line_number])
        Stripped(line) ==
            IF line = ""
            THEN [lexer |-> [locals EXCEPT !.line_number = line_number],
                  yielded |-> <<>>, error |-> ""]
            ELSE Matched(line, EDIT_NUMBER_RE(line))
    IN  Stripped(strip(line_text))

TimecodeFields == "00:00:04:17 00:00:07:02 00:00:00:00 00:00:02:09"

\* the lines the line parser is given
Lines ==
    {"001  CLPA     V     C        " \o TimecodeFields,
     "002  CLPB     V     D    027 " \o TimecodeFields,
     "002  Start_4K_Full Aperture_24fps V     C        " \o TimecodeFields,
     "000020  A010C002_210414GF                V     W001 024 " \o TimecodeFields,
     "003197                                   V     C        " \o TimecodeFields,
     "004  ABCDEFGHV     C        " \o TimecodeFields,
     "005> ABCDEFGHIJKLMNOPA2    D    012 " \o TimecodeFields,
     "",
     " \t ",
     "* FROM CLIP NAME:  clipA.mov",
     "TITLE: A",
     "\t006A>>! * LOC: 01:00:00:00 RED  ",
     "007  CLPA  V  C  00:00:04:17 00:00:07:02",
     "008  CLPA  V  C  00:00:04:17 00:00:07:02 00:00:00:00",
     "009"}

\* statements_from_lines takes the next line
NextLine ==
    \E line \in Lines :
        /\ family = "lines"
        /\ status = "reading"
        /\ Len(edl_lines) < MaxLines
        /\ \E step \in {statements_from_line(lexer, line)} :
               /\ edl_lines' = Append(edl_lines, line)
               /\ lexer' = step.lexer
               /\ yielded' = yielded \o step.yielded
               /\ error' = step.error
               /\ status' = IF step.error # "" THEN "raised" ELSE "reading"
        /\ UNCHANGED <<family, edl_rate, ignore_invalid_timecode_errors, doc, timelines,
                       tracks_by_name, video_tracks, handled_timeline_init,
                       current_timeline_start_offset, event_statements, current_event,
                       resolved, event_comments, processed_events, returned>>

LexerInit == family = "lines" /\ Constructed

LexerSpec == LexerInit /\ [][NextLine]_vars

(***************************************************************************)
(* Properties of the reconstruction.                                       *)
(***************************************************************************)
StandardStatements == SelectSeq(doc, IsStandardForm)

\* the tracks of the timeline being filled
Tracks == current_timeline(Reader).tracks

RecordIn(statement) == from_timecode(statement.sync_entry, edl_rate).time

RecordOut(statement) == from_timecode(statement.sync_exit, edl_rate).time

\* each statement's record-in is the record-out of the statement before it
RecordRangesContiguous ==
    \A i \in 1..(Len(StandardStatements) - 1) :
        StandardStatements[i + 1].sync_entry = StandardStatements[i].sync_exit

\* the four statements of the CLPA/CLPB document, by their source lines
IsDissolveDocument ==
    /\ Len(doc) = 4
    /\ StandardStatements = doc
    /\ <<doc[1].edit_number, doc[2].edit_number, doc[3].edit_number, doc[4].edit_number>>
           = <<<<0, 0, 1>>, <<0, 0, 2>>, <<0, 0, 2>>, <<0, 0, 3>>>>
    /\ <<doc[1].edit_type, doc[2].edit_type, doc[3].edit_type, doc[4].edit_type>>
           = <<"C", "C", "D", "C">>
    /\ <<doc[2].source_identification, doc[4].source_identification>> = <<"CLPA", "CLPB">>

Transitions(children) == SelectSeq(children, IsTransition)

\* C1: a document whose statements all target the one video channel and
\* whose record ranges are contiguous is read into a single track whose
\* duration is the last record-out minus the first record-in; the CLPA/CLPB
\* document at rate 24 gives one video track of 276 frames with exactly one
\* Transition.
C1_ContiguousEventsDuration ==
    (/\ family = "video"
     /\ StandardStatements # <<>>
     /\ RecordRangesContiguous)
    => /\ error = ""
       /\ status = "returned" =>
              /\ Len(timelines) = 1
              /\ Len(Tracks) = 1
              /\ TrackDuration(Tracks[1].children).t =
                     RecordOut(StandardStatements[Len(StandardStatements)]).t
                         - RecordIn(StandardStatements[1]).t
              /\ IsDissolveDocument =>
                     /\ Tracks[1].kind = "Video"
                     /\ TrackDuration(Tracks[1].children) = RationalTime(11 * 24 + 12, 24)
                     /\ Len(Transitions(Tracks[1].children)) = 1

\* C1, for the reads that return: the duration of the single track is the
\* last record-out minus the first record-in.
C1_DurationOfCompletedRead ==
    error = "" => C1_ContiguousEventsDuration

\* the CLPA/CLPB document has been read to its end
C1_DissolveDocumentRead ==
    /\ family = "video"
    /\ status = "returned"
    /\ IsDissolveDocument
    /\ RecordRangesContiguous
    /\ TrackDuration(Tracks[1].children) = RationalTime(276, 24)

\* a wipe from AX and, contiguous with it, a dissolve from AX, each the only
\* statement of its event: the read ends in an AttributeError
C1_Witness ==
    /\ family = "video"
    /\ Len(doc) = 2
    /\ RecordRangesContiguous
    /\ <<doc[1].edit_type, doc[2].edit_type>> = <<"W001", "D">>
    /\ status = "raised"
    /\ error = "AttributeError"

\* what a track shows of its items: kind, name and duration of each
ItemSequence(children) ==
    [i \in 1..Len(children) |->
        [kind |-> children[i].kind, name |-> children[i].name,
         duration |-> ItemDuration(children[i]).t]]

UsesSeveralTracks == family \in {"both", "audio pair"}

\* C2: when every event of the document uses one channel code that maps to
\* several tracks, every destination track holds the same sequence of items
\* (kinds, names and durations) once the document has been read.
C2_DestinationTracksAgree ==
    UsesSeveralTracks
    => /\ error \notin {"IndexError", "AttributeError"}
       /\ status = "returned" =>
              \A i, j \in 1..Len(Tracks) :
                  ItemSequence(Tracks[i].children) = ItemSequence(Tracks[j].children)

\* the CLPA/CLPB document on channel code B ends in an IndexError: the
\* continuation of CLPB was merged into the video track and no item is left
\* for the audio track
C2_Witness ==
    /\ family = "both"
    /\ IsDissolveDocument
    /\ error = "IndexError"
    /\ Len(Tracks) = 2
    /\ ItemSequence(Tracks[1].children) # ItemSequence(Tracks[2].children)

OnRecordOverlaps == family \in {"overlaps", "overlaps from 1 hour"}

\* every statement of the document is an event of its own
OneStatementPerEvent ==
    \A i \in 1..(Len(doc) - 1) :
        normalized_edit_number(doc[i]) # normalized_edit_number(doc[i + 1])

\* the record range a clip was read with
RecordRange(clip) ==
    range_from_start_end_time(
        from_timecode(clip.original_timecode.record_tc_in, edl_rate).time,
        from_timecode(clip.original_timecode.record_tc_out, edl_rate).time)

RangesOverlap(a, b) ==
    /\ a.start_time.t < end_time_exclusive(b).t
    /\ b.start_time.t < end_time_exclusive(a).t

\* two clips of the track were read with overlapping record ranges
HoldsOverlappingClips(track) ==
    \E i, j \in 1..Len(track.children) :
        /\ i < j
        /\ IsClip(track.children[i])
        /\ IsClip(track.children[j])
        /\ RangesOverlap(RecordRange(track.children[i]), RecordRange(track.children[j]))

\* C3: no audio track ever holds two clips of different events whose
\* record ranges overlap: the event that would overlap content already on
\* the track aborts the read with the track-overlap EDLParseError instead of
\* being appended.
C3_NoAudioOverlap ==
    (OnRecordOverlaps /\ OneStatementPerEvent)
    => \A i \in 1..Len(Tracks) :
           Tracks[i].kind = "Audio" => ~HoldsOverlappingClips(Tracks[i])

\* two audio events from a record start of one hour, the second overlapping
\* the first, are both on track A1 and the read has returned
C3_Witness ==
    /\ family = "overlaps from 1 hour"
    /\ status = "returned"
    /\ Len(doc) = 2
    /\ doc[1].channels = "A" /\ doc[2].channels = "A"
    /\ <<doc[1].source_identification, doc[2].source_identification>> = <<"R1", "R2">>
    /\ Len(Tracks) = 1
    /\ HoldsOverlappingClips(Tracks[1])

AllOnChannel(channels) == \A i \in 1..Len(doc) : doc[i].channels = channels

\* C4: an event on the video channel whose record range overlaps content of
\* the track it targets goes to another video track that is free in that
\* range, or to a new overlay track, and raises no error: so no video track
\* holds two clips of different events whose record ranges overlap.
C4_VideoOverlapMovesTrack ==
    (OnRecordOverlaps /\ OneStatementPerEvent /\ AllOnChannel("V"))
    => /\ error = ""
       /\ \A i \in 1..Len(Tracks) : ~HoldsOverlappingClips(Tracks[i])

\* two video events from a record start of one hour, the second overlapping
\* the first, are both on track V and no overlay track was made
C4_Witness ==
    /\ family = "overlaps from 1 hour"
    /\ status = "returned"
    /\ Len(doc) = 2
    /\ AllOnChannel("V")
    /\ <<doc[1].source_identification, doc[2].source_identification>> = <<"R1", "R2">>
    /\ Len(Tracks) = 1
    /\ HoldsOverlappingClips(Tracks[1])

\* the statements' record ranges follow each other in increasing order
\* without overlapping
RecordRangesIncrease ==
    \A i \in 1..(Len(doc) - 1) : RecordOut(doc[i]).t <= RecordIn(doc[i + 1]).t

\* the clip at index i of the track starts at its record-in, counted from
\* the record-in of the first statement of the document
StartsAtRecordIn(track, i) ==
    range_of_child_at_index(track.children, i).start_time.t =
        RecordRange(track.children[i]).start_time.t - RecordIn(doc[1]).t

\* C5: after events on one channel whose record ranges increase without
\* overlapping, every clip starts in its track at its record-in minus the
\* record-in of the first event: the holes are filled by gaps of exactly the
\* missing duration.
C5_ClipsStartAtRecordIn ==
    (/\ OnRecordOverlaps
     /\ doc # <<>>
     /\ AllOnChannel("V") \/ AllOnChannel("A")
     /\ RecordRangesIncrease)
    => /\ error = ""
       /\ \A t \in 1..Len(Tracks) : \A i \in 1..Len(Tracks[t].children) :
              IsClip(Tracks[t].children[i]) => StartsAtRecordIn(Tracks[t], i)

\* the same, for documents in which every statement is an event of its own
C5_SingleStatementEvents ==
    OneStatementPerEvent => C5_ClipsStartAtRecordIn

\* an event of two statements with a hole between their record ranges is on
\* the track without a gap between its clips
C5_Witness ==
    /\ OnRecordOverlaps
    /\ status = "returned"
    /\ Len(doc) = 2
    /\ AllOnChannel("V")
    /\ RecordRangesIncrease
    /\ <<doc[1].source_identification, doc[2].source_identification>> = <<"R2", "R3">>
    /\ Len(Tracks[1].children) = 2
    /\ ~StartsAtRecordIn(Tracks[1], 2)

\* the indices at which the track holds a Transition made from line k
TransitionsOfLine(track, k) ==
    {i \in 1..Len(track.children) :
        IsTransition(track.children[i]) /\ track.children[i].line = k}

\* the Transition at index i goes into the clip of line k, from offset 0
\* over n frames at the EDL rate
LeadsIntoClip(track, i, k) ==
    /\ track.children[i].in_offset = RationalTime(0, edl_rate)
    /\ track.children[i].out_offset = RationalTime(int(doc[k].edit_parameter), edl_rate)
    /\ i < Len(track.children)
    /\ IsClip(track.children[i + 1])
    /\ track.children[i + 1].line = k

\* C6: once the document is read, each dissolve or wipe statement with a
\* numeric parameter n has exactly one Transition on each of its destination
\* tracks, immediately before the statement's clip, with in_offset 0 and
\* out_offset n frames at the EDL rate; a cut statement has none.
C6_TransitionBeforeClip ==
    /\ error \notin {"IndexError", "AttributeError"}
    /\ status = "returned" =>
           \A k \in 1..Len(doc) :
               LET holders == {t \in 1..Len(Tracks) :
                                  TransitionsOfLine(Tracks[t], k) # {}}
               IN  IF IsStandardForm(doc[k]) /\ effect_type(doc[k]) \in {"D", "W"}
                   THEN /\ Cardinality(holders) =
                               Len(track_names_for_channel(doc[k].channels))
                        /\ \A t \in holders :
                               /\ Cardinality(TransitionsOfLine(Tracks[t], k)) = 1
                               /\ \A i \in TransitionsOfLine(Tracks[t], k) :
                                      LeadsIntoClip(Tracks[t], i, k)
                   ELSE holders = {}

\* C6, for the reads that return
C6_TransitionsOfCompletedRead ==
    error \in {"IndexError", "AttributeError"} \/ C6_TransitionBeforeClip

\* a wipe of 10 frames has been read on channel code B, after a cut: both
\* tracks hold its Transition before its clip
C6_Witness ==
    /\ family = "both"
    /\ status = "returned"
    /\ \E k \in 2..Len(doc) :
           /\ doc[k].edit_type = "W001"
           /\ doc[k - 1].edit_type = "C"
           /\ \A t \in {1, 2} :
                  \E i \in TransitionsOfLine(Tracks[t], k) :
                      /\ LeadsIntoClip(Tracks[t], i, k)
                      /\ Tracks[t].children[i].out_offset = RationalTime(10, 24)

\* a timecode of the document as the reader's configuration reads it
TimeOf(timecode) ==
    from_timecode_approx(timecode, edl_rate, ignore_invalid_timecode_errors).time

\* the clips the resolver returned for the last event, channel by channel
ResolvedClips == [c \in 1..Len(resolved) |-> SelectClips(resolved[c].items)]

IsImplicit(statement) == statement.sync_entry = statement.sync_exit

\* the record duration of the j-th clip of clips as the statements give it:
\* an implicit record range ends where the next clip of the event begins
RecordDuration(clips, j) ==
    LET statement == doc[clips[j].line]
    IN  IF IsImplicit(statement) /\ j < Len(clips)
        THEN TimeOf(doc[clips[j + 1].line].sync_entry).t - TimeOf(statement.sync_entry).t
        ELSE TimeOf(statement.sync_exit).t - TimeOf(statement.sync_entry).t

LiteralSourceDuration(statement) ==
    TimeOf(statement.source_exit).t - TimeOf(statement.source_entry).t

\* C7: every clip the resolver returns has a source range that starts at
\* the statement's source-in and lasts the statement's resolved record
\* duration, expressed at the rate of the source-in; the source-out is not
\* used, also when the two durations disagree.
C7_SourceDurationFromRecord ==
    \A c \in 1..Len(resolved) : \A j \in 1..Len(ResolvedClips[c]) :
        LET clip == ResolvedClips[c][j]
            statement == doc[clip.line]
        IN  /\ clip.source_range.start_time = TimeOf(statement.source_entry)
            /\ clip.source_range.duration.t = RecordDuration(ResolvedClips[c], j)
            /\ clip.source_range.duration.r = TimeOf(statement.source_entry).r

\* a clip was resolved whose source timecodes span 10 frames and whose
\* record timecodes span a second: it lasts the second
C7_Witness ==
    \E c \in 1..Len(resolved) : \E j \in 1..Len(ResolvedClips[c]) :
        LET clip == ResolvedClips[c][j]
        IN  /\ doc[clip.line].source_identification = "CLPF"
            /\ LiteralSourceDuration(doc[clip.line]) = RationalTime(10, 24).t
            /\ clip.source_range.duration = RationalTime(24, 24)

\* the standard-form statements of the document after line k
LaterStandard(k) == {n \in (k + 1)..Len(doc) : IsStandardForm(doc[n])}

\* C8, as claimed: the clip of a statement whose record-in equals its
\* record-out lasts from its record-in to the record-in of the next
\* standard-form statement of the document.
C8_StretchedToNextStatement ==
    \A c \in 1..Len(resolved) : \A j \in 1..Len(ResolvedClips[c]) :
        LET clip == ResolvedClips[c][j]
            k == clip.line
        IN  (IsImplicit(doc[k]) /\ LaterStandard(k) # {})
            => clip.source_range.duration.t =
                   TimeOf(doc[Minimum(LaterStandard(k))].sync_entry).t
                       - TimeOf(doc[k].sync_entry).t

\* C8, amended: the clip of a statement whose record-in equals its
\* record-out lasts from its record-in to the record-in of the next
\* standard-form statement of the same event and channel code, and has no
\* duration when the event has no later statement on that channel code.
C8_StretchedWithinEvent ==
    \A c \in 1..Len(resolved) : \A j \in 1..Len(ResolvedClips[c]) :
        LET clip == ResolvedClips[c][j]
            clips == ResolvedClips[c]
        IN  IsImplicit(doc[clip.line])
            => /\ j < Len(clips) =>
                      clip.source_range.duration.t =
                          TimeOf(doc[clips[j + 1].line].sync_entry).t
                              - TimeOf(doc[clip.line].sync_entry).t
               /\ j = Len(clips) => clip.source_range.duration.t = 0
               /\ clip.source_range.duration.r = TimeOf(doc[clip.line].source_entry).r

\* an implicit statement was resolved with a later statement of its event
\* starting a second after it: its clip lasts that second
C8_Witness ==
    \E c \in 1..Len(resolved) :
        /\ Len(ResolvedClips[c]) = 2
        /\ IsImplicit(doc[ResolvedClips[c][1].line])
        /\ ResolvedClips[c][1].source_range.duration = RationalTime(24, 24)

\* C9: TITLE directives are never members of an event; the timelines are,
\* in order, one per run of TITLE directives with the same text (the first
\* TITLE names the timeline the reader starts with), so there are 1 + (number
\* of title changes) of them; read_from_string returns the timeline itself
\* when there is one and a collection when there are more.
TitleTexts ==
    LET titles == SelectSeq(doc, LAMBDA statement : IsTopLevelNote(statement, "TITLE"))
    IN  [i \in 1..Len(titles) |-> titles[i].data]

TitleChanges ==
    Cardinality({i \in 2..Len(TitleTexts) : TitleTexts[i] # TitleTexts[i - 1]})

\* the texts of the TITLE directives, a repeated text once
TitleRuns ==
    LET first == {i \in 1..Len(TitleTexts) : i = 1 \/ TitleTexts[i] # TitleTexts[i - 1]}
        Run[n \in 0..Len(TitleTexts)] ==
            IF n = 0 THEN <<>>
            ELSE IF n \in first THEN Append(Run[n - 1], TitleTexts[n]) ELSE Run[n - 1]
    IN  Run[Len(TitleTexts)]

C9_TimelinePerTitleChange ==
    family = "titles"
    => /\ \A i \in 1..Len(event_statements) :
              ~IsTopLevelNote(event_statements[i], "TITLE")
       /\ Len(timelines) = 1 + TitleChanges
       /\ TitleTexts # <<>> =>
              [i \in 1..Len(timelines) |-> timelines[i].name] = TitleRuns
       /\ status = "returned" =>
              returned = IF Len(timelines) = 1 THEN "Timeline"
                         ELSE "SerializableCollection"

\* a TITLE without text and then a TITLE B have been read: the reader holds
\* one timeline, named B
C9_Witness ==
    /\ family = "titles"
    /\ TitleTexts = <<"", "B">>
    /\ Len(timelines) = 1
    /\ timelines[1].name = "B"

\* C9, for documents whose TITLE directives all have a text
C9_NamedTitles ==
    (\A i \in 1..Len(TitleTexts) : TitleTexts[i] # "") => C9_TimelinePerTitleChange

\* the fields of the line a yielded statement was made from, after its
\* edit number
FieldsOfLine(statement) ==
    fields_of(EDIT_NUMBER_RE(strip(edl_lines[statement.line_number])).rest)

\* an effect type, or a wipe code: W and three digits
IsEffectTypeToken(token) ==
    \/ token \in VALID_EFFECT_TYPES
    \/ /\ Len(token) = 4
       /\ CharAt(token, 1) = "W"
       /\ \A i \in 2..4 : CharAt(token, i) \in Digits

RECURSIVE Rejoined(_)
\* fields rejoined with single spaces
Rejoined(fields) ==
    IF fields = <<>> THEN ""
    ELSE IF Len(fields) = 1 THEN fields[1]
    ELSE fields[1] \o " " \o Rejoined(Tail(fields))

\* the fields of a standard-form line taken from its tail: four timecodes,
\* the edit parameter if the field before them is not an effect type, the
\* edit type, the channels, and what is left as the source identifier
TailFirst(fields) ==
    LET n == Len(fields)
        has_parameter == ~IsEffectTypeToken(fields[n - 4])
        type_at == IF has_parameter THEN n - 5 ELSE n - 4
    IN  [source_identification |-> Rejoined(SubSeq(fields, 1, type_at - 2)),
         channels |-> fields[type_at - 1],
         edit_type |-> fields[type_at],
         edit_parameter |-> IF has_parameter THEN fields[n - 4] ELSE "",
         source_entry |-> fields[n - 3],
         source_exit |-> fields[n - 2],
         sync_entry |-> fields[n - 1],
         sync_exit |-> fields[n]]

\* the line has a source identifier, channels and an edit type of its own
\* before its timecodes
HasSeparateSource(fields) ==
    Len(fields) - 4 - (IF IsEffectTypeToken(fields[Len(fields) - 4]) THEN 0 ELSE 1) >= 3

\* C10: a standard-form statement made from a line that has a source
\* identifier, channels and an edit type before its timecodes carries the
\* fields of the line as taken from its tail: the last four are source-in,
\* source-out, record-in and record-out, and the source identifier is all
\* that is left before the channels, internal whitespace included.
C10_FieldsTakenFromTail ==
    \A i \in 1..Len(yielded) :
        (yielded[i].kind = "StandardFormStatement" /\ HasSeparateSource(FieldsOfLine(yielded[i])))
        => \A field \in DOMAIN TailFirst(FieldsOfLine(yielded[i])) :
               yielded[i][field] = TailFirst(FieldsOfLine(yielded[i]))[field]

\* the line with the source identifier 'Start_4K_Full Aperture_24fps' has
\* been read, and its statement has 'Start_4K_Full' as source identifier
\* and 'Aperture_24fps' as channels
C10_Witness ==
    \E i \in 1..Len(yielded) :
        /\ yielded[i].kind = "StandardFormStatement"
        /\ TailFirst(FieldsOfLine(yielded[i])).source_identification
               = "Start_4K_Full Aperture_24fps"
        /\ yielded[i].source_identification = "Start_4K_Full"
        /\ yielded[i].channels = "Aperture_24fps"
        /\ yielded[i].edit_type = "V"
        /\ yielded[i].edit_parameter = "C"

\* C10, the part about the timecodes: the last four fields of the line are
\* the statement's source-in, source-out, record-in and record-out
C10_TrailingTimecodes ==
    \A i \in 1..Len(yielded) :
        yielded[i].kind = "StandardFormStatement"
        => LET fields == FieldsOfLine(yielded[i])
               n == Len(fields)
           IN  <<yielded[i].source_entry, yielded[i].source_exit,
                 yielded[i].sync_entry, yielded[i].sync_exit>> = SubSeq(fields, n - 3, n)

\* C10, for lines whose source identifier is one field
C10_SingleFieldSource ==
    \A i \in 1..Len(yielded) :
        (/\ yielded[i].kind = "StandardFormStatement"
         /\ HasSeparateSource(FieldsOfLine(yielded[i]))
         /\ fields_of(TailFirst(FieldsOfLine(yielded[i])).source_identification)
                = <<TailFirst(FieldsOfLine(yielded[i])).source_identification>>)
        => \A field \in DOMAIN TailFirst(FieldsOfLine(yielded[i])) :
               yielded[i][field] = TailFirst(FieldsOfLine(yielded[i]))[field]

\* the line read last, stripped, and what EDIT_NUMBER_RE makes of it
LastLine == strip(edl_lines[Len(edl_lines)])

\* the line read last has an edit number of its own and a remainder that is
\* not a comment
LastLineIsStandardForm ==
    /\ edl_lines # <<>>
    /\ EDIT_NUMBER_RE(LastLine).matched
    /\ ~COMMENT_RE(EDIT_NUMBER_RE(LastLine).rest)

\* the statement the line read last yielded is a complete standard-form
\* statement of that line
LastLineYieldedStatement ==
    /\ status = "reading"
    /\ yielded # <<>>
    /\ yielded[Len(yielded)].kind = "StandardFormStatement"
    /\ yielded[Len(yielded)].line_number = Len(edl_lines)
    /\ yielded[Len(yielded)].edit_number = EDIT_NUMBER_RE(LastLine).edit_number_subfield
    /\ \A field \in {"edit_type", "source_entry", "source_exit", "sync_entry",
                     "sync_exit"} :
           yielded[Len(yielded)][field] # ""

\* the line read last made the lexer fail with EDLParseError, at that line
\* and edit number, and yielded nothing
LastLineRaisedParseError ==
    /\ status = "raised"
    /\ error = "EDLParseError: incorrect number of fields"
    /\ lexer.line_number = Len(edl_lines)
    /\ lexer.edit_number = EDIT_NUMBER_RE(LastLine).edit_number_subfield
    /\ \A i \in 1..Len(yielded) : yielded[i].line_number # Len(edl_lines)

\* C11: a line with an explicit edit number and a remainder that is not a
\* comment either yields a complete StandardFormStatement or makes the lexer
\* fail with EDLParseError at its line number and edit number; a wrong
\* field count never escapes as another kind of error.
C11_MalformedLineRaisesParseError ==
    LastLineIsStandardForm => (LastLineYieldedStatement \/ LastLineRaisedParseError)

\* a line with an edit number, a reel, a channel and an edit type followed
\* by three timecodes has been read, and the lexer ended with an IndexError
C11_Witness ==
    /\ LastLineIsStandardForm
    /\ Len(fields_of(EDIT_NUMBER_RE(LastLine).rest)) = 6
    /\ ~IsEffectTypeToken(fields_of(EDIT_NUMBER_RE(LastLine).rest)[2])
    /\ status = "raised"
    /\ error = "IndexError"

\* C11, for the field counts the lexer checks: a line with fewer than 6 or
\* more than 8 fields after its edit number fails with EDLParseError
C11_CheckedFieldCounts ==
    (/\ LastLineIsStandardForm
     /\ \/ Len(fields_of(EDIT_NUMBER_RE(LastLine).rest)) < 6
        \/ Len(fields_of(EDIT_NUMBER_RE(LastLine).rest)) > 8)
    => LastLineRaisedParseError

\* every character of the text is whitespace
IsBlank(text) == \A i \in 1..Len(text) : CharAt(text, i) \in Whitespace

\* the lines the lexer has gone through without failing
LinesPassed == IF status = "raised" THEN Len(edl_lines) - 1 ELSE Len(edl_lines)

\* the 1-based indices of the lines passed that are not blank, in order
NonBlankLineNumbers ==
    SelectSeq([i \in 1..LinesPassed |-> i], LAMBDA i : ~IsBlank(edl_lines[i]))

\* C12: the lexer yields exactly one statement per non-blank line, in input
\* order, each with the 1-based index of its line (blank lines counted) as
\* line_number; blank and whitespace-only lines yield nothing.
C12_OneStatementPerLine ==
    [i \in 1..Len(yielded) |-> yielded[i].line_number] = NonBlankLineNumbers

\* a whitespace-only line has been read between two lines that yielded
\* the statements of lines 1 and 3
C12_Witness ==
    /\ Len(edl_lines) = 3
    /\ edl_lines[2] = " \t "
    /\ Len(yielded) = 2
    /\ yielded[1].line_number = 1
    /\ yielded[2].line_number = 3

\* the digits and the letter at the head of a field
EditNumberPart(field) ==
    SubSeq(field, 1,
           IF Leading(field, Digits) < Len(field)
                  /\ CharAt(field, Leading(field, Digits) + 1) \in Letters
           THEN Leading(field, Digits) + 1
           ELSE Leading(field, Digits))

\* what follows the edit number and its markers at the head of a text
AfterEditNumber(text) ==
    LET after == Slice(text, Len(EditNumberPart(text)))
    IN  Slice(after, Leading(after, {">", "!"}))

\* the edit number of a line that begins with an edit-number field: digits,
\* an optional letter, the optional markers, and whitespace before the rest
\* of the line; "" when the line does not begin with one
OwnEditNumber(line) ==
    LET text == Slice(line, Leading(line, Whitespace))
        part == EditNumberPart(text)
        rest == AfterEditNumber(text)
    IN  IF /\ part # ""
           /\ CharAt(part, 1) \in Digits
           /\ SubSeq(text, Len(part) + 1, Len(text) - Len(rest)) \in {"", ">", ">!", ">>!"}
           /\ rest # ""
           /\ CharAt(rest, 1) \in Whitespace
           /\ ~IsBlank(rest)
        THEN part ELSE ""

\* the remainder of the line after its edit-number field begins with "*"
RemainderIsComment(line) ==
    LET rest == AfterEditNumber(Slice(line, Leading(line, Whitespace)))
    IN  CharAt(rest, Leading(rest, Whitespace) + 1) = "*"

RECURSIVE LastSeenEditNumber(_, _)
\* the last of the first k edit numbers that is one; "" when none is
LastSeenEditNumber(own, k) ==
    IF k = 0 THEN ""
    ELSE IF own[k] # "" THEN own[k]
    ELSE LastSeenEditNumber(own, k - 1)

\* C13: a line is note-form exactly when it has no leading edit-number
\* field or its remainder begins with "*"; a statement of a line without an
\* edit number carries the last explicit one seen ("" before the first) and
\* is flagged inferred; a line with its own edit number is never inferred.
C13_NoteFormClassification ==
    LET own == [k \in 1..Len(edl_lines) |-> OwnEditNumber(edl_lines[k])]
    IN  \A i \in 1..Len(yielded) :
            /\ (yielded[i].kind = "NoteFormStatement")
                   <=> (\/ own[yielded[i].line_number] = ""
                        \/ RemainderIsComment(edl_lines[yielded[i].line_number]))
            /\ yielded[i].is_edit_number_inferred <=> (own[yielded[i].line_number] = "")
            /\ yielded[i].edit_number = LastSeenEditNumber(own, yielded[i].line_number)

\* a standard-form line, then a note without an edit number that carries
\* the number of the line before it, then a comment with its own number
C13_Witness ==
    /\ Len(yielded) = 3
    /\ yielded[1].kind = "StandardFormStatement"
    /\ yielded[1].edit_number = "001"
    /\ yielded[2].kind = "NoteFormStatement"
    /\ yielded[2].is_edit_number_inferred
    /\ yielded[2].edit_number = "001"
    /\ yielded[3].kind = "NoteFormStatement"
    /\ ~yielded[3].is_edit_number_inferred
    /\ yielded[3].edit_number = "006A"

\* the notes EventComments was given for the event processed last, once the
\* read has ended
EventNotes == SelectSeq(event_statements, IsNonMotionNote)

\* the read has ended and its last event was classified
LastEventClassified ==
    status # "reading" /\ explicit_edit_number_present(event_statements)

\* an ASC_SOP note with at least 9 numeric values
IsColorDecision(note) ==
    note.identifier = "ASC_SOP" /\ Len(ASC_SOP_REGEX_findall(note.data, 1)) >= 9

\* note i is an ASC_SOP note with fewer than 9 numeric values, met while
\* no color decision is recorded
IsInvalidColorDecision(notes, i) ==
    /\ notes[i].identifier = "ASC_SOP"
    /\ Len(ASC_SOP_REGEX_findall(notes[i].data, 1)) < 9
    /\ \A j \in 1..(i - 1) : ~IsColorDecision(notes[j])

\* the notes after note i are classified as if note i were not there
ClassifiedAfter(notes, i) ==
    /\ (\E j \in (i + 1)..Len(notes) : IsColorDecision(notes[j]))
           => event_comments.handled["asc_sop"] # <<>>
    /\ (\E j \in 1..Len(notes) : notes[j].identifier \in {"FROM CLIP", "FROM FILE"})
           => event_comments.handled["media_reference"] # <<>>
    /\ \A j \in (i + 1)..Len(notes) :
           (notes[j].identifier = "LOC" /\ notes[j].data \in ValidLocatorData)
               => event_comments.handled["locators"] # <<>>

KeyOfNote(note) ==
    CASE note.identifier = "FROM CLIP NAME" -> "clip_name"
      [] note.identifier = "TO CLIP NAME" -> "dest_clip_name"
      [] note.identifier \in {"FROM CLIP", "FROM FILE", "OTIO REFERENCE"} -> "media_reference"
      [] note.identifier = "LOC" -> "locators"
      [] note.identifier = "ASC_SOP" -> "asc_sop"
      [] note.identifier = "ASC_SAT" -> "asc_sat"
      [] note.identifier = "* FREEZE FRAME" -> "freeze_frame"
      [] OTHER -> ""

\* the note's data can be read as a value of its key
NoteParses(note) ==
    CASE KeyOfNote(note) = "asc_sop" -> IsColorDecision(note)
      [] KeyOfNote(note) = "asc_sat" -> note.data \in ValidAscSatData
      [] KeyOfNote(note) = "locators" -> note.data \in ValidLocatorData
      [] OTHER -> TRUE

\* the notes before note i that set the value of its key
EarlierContributors(notes, i) ==
    {j \in 1..(i - 1) :
        /\ KeyOfNote(notes[j]) = KeyOfNote(notes[i])
        /\ NoteParses(notes[j])
        /\ \A h \in 1..(j - 1) :
               KeyOfNote(notes[h]) = KeyOfNote(notes[j]) => ~NoteParses(notes[h])}

\* note i is the first note that contributes to its key
IsFirstContributor(notes, i) ==
    /\ KeyOfNote(notes[i]) \notin {"", "locators"}
    /\ NoteParses(notes[i])
    /\ EarlierContributors(notes, i) = {}

\* note i maps to a key that is set when it is met
MapsToSetKey(notes, i) ==
    /\ KeyOfNote(notes[i]) \notin {"", "locators"}
    /\ EarlierContributors(notes, i) # {}

\* how many of the elements of a sequence are equal to a value
Occurrences(seq, value) == Cardinality({k \in 1..Len(seq) : seq[k] = value})

TimecodesOf(statement) ==
    {statement.source_entry, statement.source_exit, statement.sync_entry,
     statement.sync_exit}

\* the timecodes of the standard-form statements of the document
DocumentTimecodes ==
    UNION {TimecodesOf(doc[i]) : i \in {k \in 1..Len(doc) : IsStandardForm(doc[k])}}

\* the timecode read at the rate of the document, a frame count spelled as
\* a timecode first
NominalParse(timecode) ==
    from_timecode(IF IsFrameCount(timecode) THEN to_timecode(timecode[1], edl_rate)
                  ELSE timecode,
                  edl_rate)

\* C16: from_timecode_approx reports an adjustment only of a timecode that
\* does not parse at the nominal rate; a timecode that parses at the nominal
\* rate is returned as parsed and not reported as adjusted, whether invalid
\* timecodes are ignored or not; the clips of the last event carry the
\* report of their statement's timecodes.
C16_AdjustedOnlyWhenNominalFails ==
    /\ \A timecode \in DocumentTimecodes :
           LET approx == from_timecode_approx(timecode, edl_rate,
                                              ignore_invalid_timecode_errors)
           IN  /\ approx.adjusted => ~NominalParse(timecode).ok
               /\ NominalParse(timecode).ok
                      => /\ approx.ok
                         /\ ~approx.adjusted
                         /\ approx.time = NominalParse(timecode).time
    /\ \A c \in 1..Len(resolved) : \A j \in 1..Len(ResolvedClips[c]) :
           LET clip == ResolvedClips[c][j]
           IN  /\ clip.timecode_was_adjusted
                      => \E timecode \in TimecodesOf(doc[clip.line]) :
                             ~NominalParse(timecode).ok
               /\ (\A timecode \in TimecodesOf(doc[clip.line]) :
                       NominalParse(timecode).ok)
                      => clip.source_range.start_time
                             = NominalParse(doc[clip.line].source_entry).time

\* invalid timecodes are ignored and two events were resolved: the last one
\* parses at the nominal rate and its clip is not reported as adjusted, an
\* earlier one has a frame field of 25 at 24 frames per second
C16_Witness ==
    /\ ignore_invalid_timecode_errors
    /\ status = "returned"
    /\ \E i \in 1..Len(doc) :
           /\ IsStandardForm(doc[i])
           /\ doc[i].source_entry = tc(1, 25)
           /\ from_timecode_approx(doc[i].source_entry, edl_rate, TRUE).adjusted
    /\ \E c \in 1..Len(resolved) : \E j \in 1..Len(ResolvedClips[c]) :
           LET clip == ResolvedClips[c][j]
           IN  /\ ~clip.timecode_was_adjusted
               /\ doc[clip.line].source_entry = tc(0, 0)
               /\ doc[clip.line].source_exit = tc(0, 10)
               /\ clip.source_range.start_time = RationalTime(0, 24)

\* the timecode as it is parsed: a frame count spelled as a timecode first
TimecodeText(timecode) ==
    IF IsFrameCount(timecode) THEN to_timecode(timecode[1], edl_rate) ELSE timecode

\* the first of the known rates that is greater than the frame field, the
\* frame field plus one when there is none
RetryRate(frame_field) ==
    LET greater == {i \in 1..Len(known_rates) : known_rates[i] > frame_field}
    IN  IF greater = {} THEN frame_field + 1
        ELSE known_rates[CHOOSE i \in greater : \A j \in greater : i <= j]

HasOwnEditNumber(statement) ==
    ~statement.is_edit_number_inferred /\ statement.edit_number # NoneEdit

\* the statement is read into an event
IsEventStatement(statement) ==
    /\ ~IsTopLevelNote(statement, "FCM")
    /\ ~IsTopLevelNote(statement, "TITLE")
    /\ ~IsTopLevelNote(statement, "SPLIT")

\* C18: normalizing a normalized edit number gives it back; edit numbers
\* that differ in zero padding only (001, 1, 0001) normalize to the same
\* value, and a statement that follows one with such an edit number is
\* grouped into the same event.
C18_NormalizedEditNumberGroups ==
    /\ \A i \in 1..Len(doc) :
           normalized_edit_number(
               [doc[i] EXCEPT !.edit_number = normalized_edit_number(doc[i])])
               = normalized_edit_number(doc[i])
    /\ \A i, j \in {k \in 1..Len(doc) : HasOwnEditNumber(doc[k])} :
           int(doc[i].edit_number) = int(doc[j].edit_number)
               => normalized_edit_number(doc[i]) = normalized_edit_number(doc[j])
    /\ \A n \in 2..Len(doc) :
           (/\ n = Len(doc)
            /\ HasOwnEditNumber(doc[n - 1]) /\ IsEventStatement(doc[n - 1])
            /\ HasOwnEditNumber(doc[n]) /\ IsEventStatement(doc[n])
            /\ int(doc[n - 1].edit_number) = int(doc[n].edit_number))
               => /\ Len(event_statements) >= 2
                  /\ SubSeq(event_statements, Len(event_statements) - 1,
                            Len(event_statements)) = <<doc[n - 1], doc[n]>>

\* the statements of edit numbers 001, 1 and 0001 have been read: they are
\* the one event being accumulated, whose number is 1
C18_Witness ==
    /\ Len(doc) = 3
    /\ event_statements = doc
    /\ {doc[i].edit_number : i \in 1..3} = {<<0, 0, 1>>, <<1>>, <<0, 0, 0, 1>>}
    /\ current_event = <<1>>

\* the step processes the event that has been accumulated
ProcessesEvent ==
    /\ status = "reading"
    /\ event_statements # <<>>
    /\ \/ status' # "reading"
       \/ Len(doc') = Len(doc) + 1 /\ event_statements' = <<doc'[Len(doc')]>>

\* the items of the event the step resolves for its one channel code
PlacedItems == resolved'[1].items

\* the step places, on track t, an event whose first item is a clip without
\* duration that continues the last clip of the track where the track ends
PlacesFragmentOn(t) ==
    /\ ProcessesEvent
    /\ Len(resolved') = 1
    /\ \E n \in 1..Len(track_names_for_channel(resolved'[1].channels)) :
           track_names_for_channel(resolved'[1].channels)[n] = Tracks[t].name
    /\ PlacedItems # <<>>
    /\ IsClip(PlacedItems[1])
    /\ ItemDuration(PlacedItems[1]).t = 0
    /\ Tracks[t].children # <<>>
    /\ IsClip(Tracks[t].children[Len(Tracks[t].children)])
    /\ clips_are_continuous(Tracks[t].children[Len(Tracks[t].children)],
                            PlacedItems[1]) = "yes"
    /\ relative_start_time(Reader, resolved'[1].timeline_range).t
           = TrackDuration(Tracks[t].children).t

ItemKinds(children) == [i \in 1..Len(children) |-> children[i].kind]

\* track t has, after the step, the shape it would have with the items
\* after the fragment appended to it: their number, kinds and duration
FragmentLeavesNoTrace(t) ==
    /\ error' = ""
    /\ ItemKinds(Tracks'[t].children)
           = ItemKinds(Tracks[t].children \o Tail(PlacedItems))
    /\ TrackDuration(Tracks'[t].children).t
           = TrackDuration(Tracks[t].children \o Tail(PlacedItems)).t

\* C19: placing a clip without duration that continues the last clip of a
\* track gives the track the shape (item count, kinds, duration) it has
\* when the items that follow the fragment are placed without it; placing
\* the fragment alone, any number of times, changes neither the item count
\* nor the duration of the track.
C19_FragmentMergeKeepsShape ==
    [][\A t \in 1..Len(Tracks) : PlacesFragmentOn(t) => FragmentLeavesNoTrace(t)]_vars

\* C19 for the channel codes that name one track
C19_SingleTrackChannel ==
    [][\A t \in 1..Len(Tracks) :
           (/\ PlacesFragmentOn(t)
            /\ Len(track_names_for_channel(resolved'[1].channels)) = 1)
               => FragmentLeavesNoTrace(t)]_vars

\* on the channel code B the clip CLPA and its continuation without
\* duration have been read: the read ended with an IndexError
C19_Witness ==
    /\ family = "both"
    /\ status = "raised"
    /\ error = "IndexError"
    /\ Len(doc) = 2
    /\ doc[1].source_identification = "CLPA"
    /\ doc[2].source_identification = "CLPA"
    /\ doc[2].sync_entry = doc[2].sync_exit
    /\ TimeOf(doc[2].source_entry).t
           = TimeOf(doc[1].source_entry).t
                 + (TimeOf(doc[1].sync_exit).t - TimeOf(doc[1].sync_entry).t)

\* the clip of event 001 and two events that continue it without duration
\* have been read: the track holds the one clip, of one second
C19_MergedTwice ==
    /\ family = "padding"
    /\ status = "returned"
    /\ Len(doc) = 3
    /\ <<doc[1].edit_number, doc[2].edit_number, doc[3].edit_number>>
           = <<<<0, 0, 1>>, <<0, 0, 2>>, <<0, 1, 0>>>>
    /\ Len(Tracks) = 1
    /\ ItemKinds(Tracks[1].children) = <<"Clip">>
    /\ TrackDuration(Tracks[1].children).t = RationalTime(24, 24).t

RECURSIVE ActiveTimeline(_)
\* the timeline that is active once the first k statements of the document
\* are read, as <<its position in timelines, its name>>
ActiveTimeline(k) ==
    IF k = 0 THEN <<1, "">>
    ELSE LET before == ActiveTimeline(k - 1)
         IN  IF ~IsTopLevelNote(doc[k], "TITLE") THEN before
             ELSE IF before[2] # "" /\ before[2] # doc[k].data
             THEN <<before[1] + 1, doc[k].data>>
             ELSE <<before[1], doc[k].data>>

\* the timelines in which a clip of the statement of line k is placed
TimelinesOfLine(k) ==
    {tl \in 1..Len(timelines) :
        \E t \in 1..Len(timelines[tl].tracks) :
            \E i \in 1..Len(timelines[tl].tracks[t].children) :
                /\ IsClip(timelines[tl].tracks[t].children[i])
                /\ timelines[tl].tracks[t].children[i].line = k}

\* C20: every clip is placed in the timeline that was active when its
\* statement was read, and the statements of the event being accumulated
\* were all read while the current timeline was active: a TITLE that starts
\* a timeline leaves no event of the earlier timeline to be placed.
C20_EventsPlacedInActiveTimeline ==
    /\ \A k \in 1..Len(doc) : TimelinesOfLine(k) \subseteq {ActiveTimeline(k)[1]}
    /\ \A i \in 1..Len(event_statements) :
           ActiveTimeline(event_statements[i].line_number)[1] = Len(timelines)

\* no clip is placed in a timeline that was left before its statement was
\* read
C20_NeverInEarlierTimeline ==
    \A k \in 1..Len(doc) : \A tl \in TimelinesOfLine(k) : tl >= ActiveTimeline(k)[1]

\* TITLE A, the event of CLPA, TITLE B and the event of CLPB have been
\* read: timeline A has no track and timeline B holds both clips
C20_Witness ==
    /\ status = "returned"
    /\ Len(doc) = 4
    /\ IsTopLevelNote(doc[1], "TITLE") /\ doc[1].data = "A"
    /\ IsStandardForm(doc[2]) /\ doc[2].source_identification = "CLPA"
    /\ IsTopLevelNote(doc[3], "TITLE") /\ doc[3].data = "B"
    /\ IsStandardForm(doc[4]) /\ doc[4].source_identification = "CLPB"
    /\ Len(timelines) = 2
    /\ timelines[1].tracks = <<>>
    /\ TimelinesOfLine(2) = {2}
    /\ TimelinesOfLine(4) = {2}

\* the statements of the document that belong to events
EventStatementsOfDocument ==
    SelectSeq(doc, LAMBDA statement : /\ ~IsTopLevelNote(statement, "FCM")
                                      /\ ~IsTopLevelNote(statement, "TITLE"))

RECURSIVE Flattened(_)
Flattened(events) ==
    IF events = <<>> THEN <<>> ELSE Head(events) \o Flattened(Tail(events))

\* the number of an event: the normalized edit number of its first statement
\* that has one of its own
NumberOfEvent(event) ==
    LET own == {i \in 1..Len(event) : ~event[i].is_edit_number_inferred}
    IN  IF own = {} THEN NoneEdit
        ELSE normalized_edit_number(event[CHOOSE i \in own : \A j \in own : i <= j])

\* the statement does not belong to the event read before it
StartsEventAfter(event, statement) ==
    \/ IsTopLevelNote(statement, "SPLIT")
    \/ /\ ~statement.is_edit_number_inferred
       /\ NumberOfEvent(event) # NoneEdit
       /\ normalized_edit_number(statement) # NumberOfEvent(event)

\* the events processed and the one being accumulated
EventsRead ==
    IF status = "reading" /\ event_statements # <<>>
    THEN Append(processed_events, event_statements)
    ELSE processed_events

\* C21: the statements other than TITLE and FCM directives are handed to
\* event processing once each and in the order of the document; a statement
\* joins the event of the statement before it unless it is a SPLIT
\* directive or has an edit number of its own whose normalized form is not
\* the number of that event, and then the event is processed before the new
\* one starts; the last event is processed at the end of the input.
C21_StatementsGroupedInOrder ==
    /\ status = "reading" => Flattened(EventsRead) = EventStatementsOfDocument
    /\ status = "returned" => Flattened(processed_events) = EventStatementsOfDocument
    /\ status = "raised"
           => \E n \in 0..Len(EventStatementsOfDocument) :
                  Flattened(processed_events) = SubSeq(EventStatementsOfDocument, 1, n)
    /\ \A e \in 1..Len(EventsRead) :
           /\ EventsRead[e] # <<>>
           /\ \A j \in 2..Len(EventsRead[e]) :
                  ~StartsEventAfter(SubSeq(EventsRead[e], 1, j - 1), EventsRead[e][j])
           /\ e > 1 => StartsEventAfter(EventsRead[e - 1], EventsRead[e][1])

\* a statement, a SPLIT directive, a statement of another number and a note
\* were read to the end: the first statement was processed alone and the
\* directive with the statement and the note that follow it
C21_Witness ==
    /\ status = "returned"
    /\ Len(doc) = 4
    /\ IsStandardForm(doc[1])
    /\ IsTopLevelNote(doc[2], "SPLIT")
    /\ IsStandardForm(doc[3])
    /\ normalized_edit_number(doc[3]) # normalized_edit_number(doc[1])
    /\ IsNoteForm(doc[4]) /\ doc[4].is_comment
    /\ processed_events = <<<<doc[1]>>, <<doc[2], doc[3], doc[4]>>>>

\* the elements of a sequence
Elements(seq) == {seq[i] : i \in 1..Len(seq)}

\* the step places, on track t, the items of an event of a channel code
\* that names this one track, and the event starts where the track ends
PlacesWithoutGapOn(t) ==
    /\ ProcessesEvent
    /\ Len(resolved') = 1
    /\ track_names_for_channel(resolved'[1].channels) = <<Tracks[t].name>>
    /\ PlacedItems # <<>>
    /\ Tracks[t].children # <<>>
    /\ relative_start_time(Reader, resolved'[1].timeline_range).t
           = TrackDuration(Tracks[t].children).t

\* the net time scalars of two clips are equal
SameTimeScalar(clip_1, clip_2) ==
    net_time_scalar(clip_1.effects)[1] * net_time_scalar(clip_2.effects)[2]
        = net_time_scalar(clip_2.effects)[1] * net_time_scalar(clip_1.effects)[2]

\* the incoming item is a clip without duration that continues the last
\* item of the track; the media references are compared by what compared
\* names: "type" or "type and target"
IsContinuingFragment(last, incoming, compared) ==
    /\ IsClip(incoming)
    /\ IsClip(last)
    /\ ItemDuration(incoming).t = 0
    /\ last.reel = incoming.reel
    /\ last.media_reference.type = incoming.media_reference.type
    /\ compared = "type and target"
           => last.media_reference.target = incoming.media_reference.target
    /\ end_time_exclusive(last.source_range).t = incoming.source_range.start_time.t
    /\ SameTimeScalar(last, incoming)

\* after is before with the incoming clip merged into it
IsMergeOf(after, before, incoming) ==
    /\ [after EXCEPT !.source_range = before.source_range, !.events = before.events]
           = before
    /\ after.source_range.start_time = before.source_range.start_time
    /\ after.source_range.duration.t
           = before.source_range.duration.t + ItemDuration(incoming).t
    /\ SubSeq(after.events, 1, Len(before.events)) = before.events
    /\ Elements(after.events) = Elements(before.events) \cup Elements(incoming.events)
    /\ Cardinality(Elements(after.events)) - Cardinality(Elements(before.events))
           = Len(after.events) - Len(before.events)

\* track t after the step, as C22 has it
PlacedAsClaimed(t, compared) ==
    LET before == Tracks[t].children
        after == Tracks'[t].children
    IN  /\ error' = ""
        /\ IF IsContinuingFragment(before[Len(before)], PlacedItems[1], compared)
           THEN /\ Len(after) = Len(before) + Len(PlacedItems) - 1
                /\ SubSeq(after, 1, Len(before) - 1) = SubSeq(before, 1, Len(before) - 1)
                /\ IsMergeOf(after[Len(before)], before[Len(before)], PlacedItems[1])
                /\ SubSeq(after, Len(before) + 1, Len(after)) = Tail(PlacedItems)
           ELSE after = before \o PlacedItems

\* C22: when an event is placed on a track without a gap, its first item
\* is merged into the last item of the track exactly when it is a clip
\* without duration that continues that item (same reel, same media
\* reference, source ranges that meet, equal net time scalar): the last
\* item lasts longer by the incoming duration, gets the incoming event
\* numbers it has not yet and the incoming item is not appended; in every
\* other case the items are all appended and the track's items are as they
\* were.
C22_MergedExactlyWhenContinuingFragment ==
    [][\A t \in 1..Len(Tracks) :
           PlacesWithoutGapOn(t) => PlacedAsClaimed(t, "type and target")]_vars

\* C22 with the media references compared by their type only, for the
\* events whose first item is a clip without duration and for those placed
\* on a track that does not end with a clip after a transition
C22_FragmentsAndPlainTracks ==
    [][\A t \in 1..Len(Tracks) :
           (/\ PlacesWithoutGapOn(t)
            /\ \/ IsClip(PlacedItems[1]) /\ ItemDuration(PlacedItems[1]).t = 0
               \/ Len(Tracks[t].children) < 2
               \/ ~IsClip(Tracks[t].children[Len(Tracks[t].children)])
               \/ ~IsTransition(Tracks[t].children[Len(Tracks[t].children) - 1]))
               => PlacedAsClaimed(t, "type")]_vars

\* the wipe into AX and the dissolve of the next event were read on the
\* channel code V: the read ended with an AttributeError when the dissolve,
\* a transition, was tested for a merge with the clip AX
C22_Witness ==
    /\ family = "video"
    /\ status = "raised"
    /\ error = "AttributeError"
    /\ Len(doc) = 2
    /\ doc[1].edit_type = "W001"
    /\ doc[2].edit_type = "D"
    /\ Len(Tracks) = 1
    /\ ItemKinds(Tracks[1].children) = <<"Transition", "Clip">>

\* the clip CLPB that follows its dissolve was read with the event that
\* continues it for eight seconds: the track holds no fourth item, the
\* continuation is merged into CLPB
C22_ClipMergedAfterTransition ==
    /\ family = "video"
    /\ status = "returned"
    /\ Len(doc) = 4
    /\ doc[3].edit_type = "D"
    /\ doc[4].source_identification = "CLPB"
    /\ doc[4].edit_type = "C"
    /\ doc[4].sync_entry # doc[4].sync_exit
    /\ Len(Tracks) = 1
    /\ ItemKinds(Tracks[1].children) = <<"Clip", "Transition", "Clip">>

\* the clip of clipA.mov and a continuation without duration whose media
\* is clipB.mov have been read: the track holds the one clip
C22_MergedAcrossMedia ==
    /\ family = "padding"
    /\ status = "returned"
    /\ Len(doc) = 4
    /\ doc[2].data = "clipA.mov"
    /\ doc[3].data = "clipB.mov"
    /\ IsStandardForm(doc[4])
    /\ processed_events = <<<<doc[1], doc[2]>>, <<doc[3], doc[4]>>>>
    /\ Len(Tracks) = 1
    /\ ItemKinds(Tracks[1].children) = <<"Clip">>
    /\ Tracks[1].children[1].media_reference.target = "clipA.mov"
    /\ Tracks[1].children[1].events = <<<<0, 0, 1>>, <<0, 0, 2>>>>

\* the resolved record-in and record-out of the j-th clip of clips
ResolvedRecordIn(clips, j) == TimeOf(doc[clips[j].line].sync_entry).t

ResolvedRecordOut(clips, j) == ResolvedRecordIn(clips, j) + RecordDuration(clips, j)

\* the range the resolver returned for channel group c is the union of the
\* resolved record ranges of the group's clips
ReturnsUnionRange(c) ==
    LET clips == ResolvedClips[c]
        range == resolved[c].timeline_range
    IN  clips # <<>>
        => /\ \A j \in 1..Len(clips) : range.start_time.t <= ResolvedRecordIn(clips, j)
           /\ \E j \in 1..Len(clips) : range.start_time.t = ResolvedRecordIn(clips, j)
           /\ \A j \in 1..Len(clips) :
                  end_time_exclusive(range).t >= ResolvedRecordOut(clips, j)
           /\ \E j \in 1..Len(clips) :
                  end_time_exclusive(range).t = ResolvedRecordOut(clips, j)

\* each clip of the group starts where the clip before it ends
RecordRangesMeet(c) ==
    \A j \in 2..Len(ResolvedClips[c]) :
        ResolvedRecordIn(ResolvedClips[c], j) = ResolvedRecordOut(ResolvedClips[c], j - 1)

\* C23: for each event and channel the resolver returns the range from the
\* earliest resolved record-in to the latest resolved record-out of the
\* event's statements, also when their record ranges do not meet.
C23_ResolverReturnsUnionRange ==
    \A c \in 1..Len(resolved) : ReturnsUnionRange(c)

\* C23 for the events whose record ranges meet
C23_RangesThatMeet ==
    \A c \in 1..Len(resolved) : RecordRangesMeet(c) => ReturnsUnionRange(c)

\* an event of a clip recorded from frame 5 to 15 and one from frame 20 to
\* 23 was resolved: the range returned starts at frame 5 and lasts 13 frames
C23_Witness ==
    \E c \in 1..Len(resolved) :
        /\ Len(ResolvedClips[c]) = 2
        /\ ResolvedRecordIn(ResolvedClips[c], 1) = RationalTime(5, 24).t
        /\ ResolvedRecordOut(ResolvedClips[c], 1) = RationalTime(15, 24).t
        /\ ResolvedRecordIn(ResolvedClips[c], 2) = RationalTime(20, 24).t
        /\ ResolvedRecordOut(ResolvedClips[c], 2) = RationalTime(23, 24).t
        /\ resolved[c].timeline_range.start_time = RationalTime(5, 24)
        /\ resolved[c].timeline_range.duration.t = RationalTime(13, 24).t

\* the statements handed to event processing so far
ProcessedStatements == Elements(Flattened(processed_events))

\* the edit type is a wipe: W, or W and the three digits of its pattern
IsWipeCode(edit_type) == edit_type = "W" \/ edit_type \in WipeCodes

\* a statement whose edit type is neither cut, dissolve nor wipe, or a
\* dissolve or wipe without its duration
HasUnsupportedTransition(statement) ==
    /\ IsStandardForm(statement)
    /\ \/ statement.edit_type \notin {"C", "D"} /\ ~IsWipeCode(statement.edit_type)
       \/ /\ statement.edit_type = "D" \/ IsWipeCode(statement.edit_type)
          /\ statement.edit_parameter = NoneParam

\* the read ended with the error of an unsupported transition and returned
\* nothing
AbortedForTransition ==
    /\ status = "raised"
    /\ error \in {"EDLParseError: transition type not supported",
                  "EDLParseError: transition is missing a duration"}
    /\ returned = "nothing"

\* C24: a statement whose edit type is neither cut, dissolve nor wipe, or a
\* dissolve or wipe without a duration, ends the read with the
\* EDLParseError of an unsupported transition, and nothing is returned.
C24_UnsupportedTransitionAborts ==
    (\E statement \in ProcessedStatements : HasUnsupportedTransition(statement))
        => AbortedForTransition

\* C24 for the documents whose edit types are all effect types
C24_RecognizedEditTypes ==
    (/\ \E statement \in ProcessedStatements : HasUnsupportedTransition(statement)
     /\ \A statement \in ProcessedStatements :
            IsStandardForm(statement)
                => statement.edit_type \in EffectTypes \/ IsWipeCode(statement.edit_type))
        => AbortedForTransition

\* a statement of edit type ZZ was processed: the read ended with an
\* AttributeError
C24_Witness ==
    /\ family = "unsupported"
    /\ status = "raised"
    /\ error = "AttributeError"
    /\ Len(doc) = 1
    /\ doc[1].edit_type = "ZZ"
    /\ processed_events = <<<<doc[1]>>>>

\* a key, and a dissolve without a duration, end the read with the
\* EDLParseError of an unsupported transition
C24_KeyAndDissolveRaise ==
    /\ AbortedForTransition
    /\ Len(doc) = 1
    /\ \/ doc[1].edit_type = "K" /\ error = "EDLParseError: transition type not supported"
       \/ doc[1].edit_type = "D" /\ error = "EDLParseError: transition is missing a duration"

\* the width at which a leading field that holds reel and channels is cut
ReelWidthOf(field) ==
    IF Len(field) > 32 THEN 32 ELSE IF Len(field) > 16 THEN 16 ELSE 8

\* the statement was made from a line whose field in the channel position
\* is an effect type
ChannelPositionIsEffectType(statement) ==
    /\ statement.kind = "StandardFormStatement"
    /\ FieldsOfLine(statement)[2] \in VALID_EFFECT_TYPES

\* the leading field is cut at its width into reel and channels, and the
\* field after it is the edit type
SplitAtWidth(statement) ==
    LET fields == FieldsOfLine(statement)
        width == ReelWidthOf(fields[1])
    IN  /\ statement.source_identification = SubSeq(fields[1], 1, width)
        /\ statement.channels = SubSeq(fields[1], width + 1, Len(fields[1]))
        /\ statement.edit_type = fields[2]

\* the reel is blank: the leading field is the channels
BlankReel(statement) ==
    LET fields == FieldsOfLine(statement)
    IN  /\ statement.source_identification = ""
        /\ statement.channels = fields[1]
        /\ statement.edit_type = fields[2]

\* C25: a standard-form statement made from a line whose field in the
\* channel position is an effect type has every field recovered: a leading
\* field longer than its width of 8, 16 or 32 characters is cut at that
\* width into reel and channels, a leading field that fits the width is the
\* channels of a line with a blank reel, whose source identifier is '', and
\* the field after it is the edit type.
C25_ChannelsRecoveredFromLeadingField ==
    \A i \in 1..Len(yielded) :
        ChannelPositionIsEffectType(yielded[i])
        => IF Len(FieldsOfLine(yielded[i])[1]) > ReelWidthOf(FieldsOfLine(yielded[i])[1])
           THEN SplitAtWidth(yielded[i])
           ELSE BlankReel(yielded[i])

\* C25 for the leading fields longer than their width
C25_ReelRunTogetherWithChannels ==
    \A i \in 1..Len(yielded) :
        (/\ ChannelPositionIsEffectType(yielded[i])
         /\ Len(FieldsOfLine(yielded[i])[1]) > ReelWidthOf(FieldsOfLine(yielded[i])[1]))
        => /\ SplitAtWidth(yielded[i])
           /\ yielded[i].channels # ""

\* the line with a blank reel has been read: its statement has the
\* channels 'V' as source identifier and no channels
C25_Witness ==
    \E i \in 1..Len(yielded) :
        /\ ChannelPositionIsEffectType(yielded[i])
        /\ FieldsOfLine(yielded[i])[1] = "V"
        /\ yielded[i].source_identification = "V"
        /\ yielded[i].channels = ""
        /\ yielded[i].edit_type = "C"

\* lines with reel and channels run together have been read at the widths
\* 8 and 16
C25_SplitAtBothWidths ==
    /\ \E i \in 1..Len(yielded) :
           /\ ChannelPositionIsEffectType(yielded[i])
           /\ yielded[i].source_identification = "ABCDEFGH"
           /\ yielded[i].channels = "V"
    /\ \E i \in 1..Len(yielded) :
           /\ ChannelPositionIsEffectType(yielded[i])
           /\ yielded[i].source_identification = "ABCDEFGHIJKLMNOP"
           /\ yielded[i].channels = "A2"

\* every item of every track of every timeline read
PlacedItemsOfAllTimelines ==
    UNION {UNION {Elements(timelines[k].tracks[t].children) :
                      t \in 1..Len(timelines[k].tracks)} :
               k \in 1..Len(timelines)}

\* the statement's record-out timecode precedes its record-in timecode
RecordOutPrecedesRecordIn(statement) ==
    /\ IsStandardForm(statement)
    /\ TimeOf(statement.sync_exit).t < TimeOf(statement.sync_entry).t

\* C26: when the document has been read without error, no time range has a
\* negative duration: not the range the resolver returned for a channel
\* group, not the source range of a clip it resolved, and not the source
\* range of an item placed on a track, whatever the order of the record
\* timecodes of the statements.
C26_DurationsNeverNegative ==
    status = "returned"
        => /\ \A c \in 1..Len(resolved) :
                  /\ resolved[c].timeline_range.duration.t >= 0
                  /\ \A item \in Elements(resolved[c].items) :
                         ItemDuration(item).t >= 0
           /\ \A item \in PlacedItemsOfAllTimelines : item.source_range.duration.t >= 0

\* C26 for the documents whose record-out timecodes never precede the
\* record-in timecodes
C26_OrderedRecordTimecodes ==
    (\A i \in 1..Len(doc) : ~RecordOutPrecedesRecordIn(doc[i]))
        => C26_DurationsNeverNegative

\* a document with a statement whose record-out timecode precedes its
\* record-in timecode has been read without error, and the clip of the
\* statement is on a track with a negative duration
C26_Witness ==
    /\ status = "returned"
    /\ \E item \in PlacedItemsOfAllTimelines :
           /\ IsClip(item)
           /\ RecordOutPrecedesRecordIn(doc[item.line])
           /\ item.source_range.duration.t < 0

\* the clip carries a time effect
HasTimeEffect(clip) == \E i \in 1..Len(clip.effects) : IsTimeEffect(clip.effects[i])

\* the j-th clip of clips is one the claim has tagged: its resolved record
\* duration differs from the source duration its statement spells out, its
\* record timecodes differ, and it carries no time effect
MismatchedTimecodes(clips, j) ==
    /\ RecordDuration(clips, j) # LiteralSourceDuration(doc[clips[j].line])
    /\ ~IsImplicit(doc[clips[j].line])
    /\ ~HasTimeEffect(clips[j])

\* every timecode of the clip's statement parses
TimecodesParse(clip) ==
    \A timecode \in TimecodesOf(doc[clip.line]) :
        from_timecode_approx(timecode, edl_rate, ignore_invalid_timecode_errors).ok

\* C27: a clip the resolver returned is tagged had_timecode_mismatch exactly
\* when its resolved record duration differs from the source duration its
\* statement spells out, its record-in text differs from its record-out
\* text, and it carries no time effect; tagged or not, its source range
\* starts at its source-in and has the resolved record duration, and the
\* resolver raises no error for an event whose timecodes all parse.
C27_MismatchTaggedExactly ==
    \A c \in 1..Len(resolved) :
        (\A j \in 1..Len(ResolvedClips[c]) : TimecodesParse(ResolvedClips[c][j]))
        => /\ \A j \in 1..Len(ResolvedClips[c]) :
                  /\ ResolvedClips[c][j].had_timecode_mismatch
                         <=> MismatchedTimecodes(ResolvedClips[c], j)
                  /\ ResolvedClips[c][j].source_range.start_time.t
                         = TimeOf(doc[ResolvedClips[c][j].line].source_entry).t
                  /\ ResolvedClips[c][j].source_range.duration.t
                         = RecordDuration(ResolvedClips[c], j)
           /\ error # "ValueError"

\* a clip whose source duration differs from its record duration has been
\* tagged, a clip of an event with a differing source duration has not
\* been tagged because its record timecodes are equal, and the timeline has
\* been returned
C27_Witness ==
    /\ status = "returned"
    /\ \E item \in PlacedItemsOfAllTimelines :
           /\ IsClip(item)
           /\ item.had_timecode_mismatch
           /\ item.source_range.duration.t # LiteralSourceDuration(doc[item.line])
    /\ \E c \in 1..Len(resolved) : \E j \in 1..Len(ResolvedClips[c]) :
           /\ ~ResolvedClips[c][j].had_timecode_mismatch
           /\ RecordDuration(ResolvedClips[c], j)
                  # LiteralSourceDuration(doc[ResolvedClips[c][j].line])


\* a clip with a time effect whose source duration differs from its record
\* duration has been resolved, and has not been tagged
C27_EffectedClipNotTagged ==
    \E c \in 1..Len(resolved) : \E j \in 1..Len(ResolvedClips[c]) :
        /\ HasTimeEffect(ResolvedClips[c][j])
        /\ ~IsImplicit(doc[ResolvedClips[c][j].line])
        /\ RecordDuration(ResolvedClips[c], j)
               # LiteralSourceDuration(doc[ResolvedClips[c][j].line])
        /\ ~ResolvedClips[c][j].had_timecode_mismatch

IsM2Note(statement) == IsNoteForm(statement) /\ statement_identifier(statement) = "M2"

\* the event that was processed with the statement of the line
EventOfLine(line) ==
    processed_events[CHOOSE e \in 1..Len(processed_events) :
                         \E i \in 1..Len(processed_events[e]) :
                             processed_events[e][i].line_number = line]

\* the statement of the event whose clip an M2 note of the event is for:
\* the clips are taken channel code by channel code, the channel codes in
\* the order the event names them first, and the clip is the first of the
\* reel of the note, or the first of all when no clip is of that reel
ClipStatementOf(note, event) ==
    LET std == SelectSeq(event, IsStandardForm)
        FirstOf(channels) ==
            CHOOSE i \in 1..Len(std) :
                /\ std[i].channels = channels
                /\ \A j \in 1..(i - 1) : std[j].channels # channels
        Before(i, j) ==
            \/ FirstOf(std[i].channels) < FirstOf(std[j].channels)
            \/ FirstOf(std[i].channels) = FirstOf(std[j].channels) /\ i <= j
        matches == {i \in 1..Len(std) :
                       /\ std[i].source_identification # "AX"
                       /\ std[i].source_identification = MotionDirectives[note.data].reel}
    IN  IF matches = {} THEN std[1]
        ELSE std[CHOOSE i \in matches : \A j \in matches : Before(i, j)]

\* the time effect of an M2 note
TimeEffectOf(note) ==
    [kind |-> IF MotionDirectives[note.data].speed = 0 THEN "FreezeFrame"
              ELSE "LinearTimeWarp",
     speed |-> MotionDirectives[note.data].speed,
     rate |-> edl_rate]

RECURSIVE TimeEffectsFor(_, _, _)
\* the time effects of the M2 notes among statements that are for the clip
\* of the line, in the order of the notes
TimeEffectsFor(line, statements, event) ==
    IF statements = <<>> THEN <<>>
    ELSE IF IsM2Note(Head(statements))
            /\ ClipStatementOf(Head(statements), event).line_number = line
    THEN <<TimeEffectOf(Head(statements))>> \o TimeEffectsFor(line, Tail(statements), event)
    ELSE TimeEffectsFor(line, Tail(statements), event)

\* the clip carries the time effects of the M2 notes of its own event that
\* are for it, and no other effect
CarriesItsOwnEffects(clip) ==
    clip.effects = TimeEffectsFor(clip.line, EventOfLine(clip.line), EventOfLine(clip.line))

\* C28: each M2 note of an event has appended one time effect to one clip
\* of that event, the first clip of the reel of the note or the first clip of
\* the event when no clip is of that reel, a freeze frame when its speed is
\* zero and a linear time warp of speed / rate otherwise; so the effects of
\* every clip, as resolved and as placed on a track, are the effects of the
\* M2 notes of its own event that are for it, in their order.
C28_MotionNoteAppliedToOneClip ==
    /\ \A c \in 1..Len(resolved) : \A j \in 1..Len(ResolvedClips[c]) :
           CarriesItsOwnEffects(ResolvedClips[c][j])
    /\ \A item \in PlacedItemsOfAllTimelines : IsClip(item) => CarriesItsOwnEffects(item)

\* an event of a clip of reel CLPA and a clip of reel CLPB with two M2
\* notes has been processed: the note for CLPB froze the second clip, the
\* note for a reel of no clip warped the first
C28_Witness ==
    /\ error = ""
    /\ Len(resolved) = 2
    /\ Len(ResolvedClips[1]) = 1
    /\ Len(ResolvedClips[2]) = 1
    /\ ResolvedClips[1][1].reel = "CLPA"
    /\ ResolvedClips[2][1].reel = "CLPB"
    /\ ResolvedClips[1][1].effects
           = <<[kind |-> "LinearTimeWarp", speed |-> 12, rate |-> edl_rate]>>
    /\ ResolvedClips[2][1].effects
           = <<[kind |-> "FreezeFrame", speed |-> 0, rate |-> edl_rate]>>

\* the step keeps the current timeline
KeepsTimeline == Len(timelines') = Len(timelines)

\* the first standard-form statement of the event the step processes
FirstStatementProcessed == SelectSeq(event_statements, IsStandardForm)[1]

\* the step processes the first standard-form statement of the current
\* timeline
InitialisesTimeline ==
    /\ ProcessesEvent
    /\ ~handled_timeline_init
    /\ handled_timeline_init'

\* C29: the global start time of a timeline is set at most once: the step
\* that processes the first standard-form statement for the timeline sets
\* it to the record-in of that statement, or leaves it absent when that
\* timecode does not parse, and no other step changes the global start
\* time of any timeline.  The start offset is set by the step that places
\* the first event of the timeline, to the same time as the global start
\* time, is never changed while the timeline is the current one, and is
\* unset by the step that starts a new timeline.
C29_GlobalStartTimeSetOnce ==
    [][/\ \A k \in 1..Len(timelines) :
              (k < Len(timelines) \/ ~InitialisesTimeline)
                  => timelines'[k].global_start_time = timelines[k].global_start_time
       /\ InitialisesTimeline
              => /\ KeepsTimeline
                 /\ timelines'[Len(timelines)].global_start_time
                        = IF from_timecode_approx(FirstStatementProcessed.sync_entry, edl_rate,
                                                  ignore_invalid_timecode_errors).ok
                          THEN <<TimeOf(FirstStatementProcessed.sync_entry)>>
                          ELSE <<>>
       /\ (KeepsTimeline /\ current_timeline_start_offset # <<>>)
              => current_timeline_start_offset' = current_timeline_start_offset
       /\ (KeepsTimeline /\ current_timeline_start_offset = <<>>
               /\ current_timeline_start_offset' # <<>>)
              => /\ InitialisesTimeline
                 /\ current_timeline_start_offset'
                        = timelines'[Len(timelines)].global_start_time
       /\ ~KeepsTimeline
              => /\ Len(timelines') = Len(timelines) + 1
                 /\ timelines'[Len(timelines')].global_start_time = <<>>
                 /\ current_timeline_start_offset' = <<>>
                 /\ ~handled_timeline_init'
      ]_vars

\* a second timeline has been started after events were placed in the
\* first, and an event has been placed in it: both timelines have a global
\* start time, and the start offset is that of the second
C29_Witness ==
    /\ Len(timelines) = 2
    /\ timelines[1].global_start_time # <<>>
    /\ timelines[2].global_start_time # <<>>
    /\ timelines[1].tracks # <<>>
    /\ timelines[2].tracks # <<>>
    /\ current_timeline_start_offset = timelines[2].global_start_time
    /\ error = ""

\* the record-in of the first statement of a timeline did not parse, and the
\* timeline has no global start time
C29_StartTimeAbsent ==
    /\ handled_timeline_init
    /\ timelines[Len(timelines)].global_start_time = <<>>
    /\ timelines[Len(timelines)].parsing_info # <<>>

\* the tracks of the current timeline have pairwise distinct names, and
\* tracks_by_name has these names and no other, each for its own track
NamesIndexTracks ==
    /\ \A i, j \in 1..Len(Tracks) : Tracks[i].name = Tracks[j].name => i = j
    /\ DOMAIN tracks_by_name = {Tracks[i].name : i \in 1..Len(Tracks)}
    /\ \A name \in DOMAIN tracks_by_name :
           /\ tracks_by_name[name] \in 1..Len(Tracks)
           /\ Tracks[tracks_by_name[name]].name = name

\* how often the track at index is in video_tracks
TimesListed(index) == Cardinality({j \in 1..Len(video_tracks) : video_tracks[j] = index})

\* video_tracks lists video tracks of the current timeline only
ListsVideoTracksOnly ==
    \A j \in 1..Len(video_tracks) :
        /\ video_tracks[j] \in 1..Len(Tracks)
        /\ Tracks[video_tracks[j]].kind = "Video"

\* C30: in every state of the reader the tracks of the current timeline
\* have pairwise distinct names, tracks_by_name maps each of these names,
\* and no other, to the track of that name, and video_tracks lists the
\* video tracks of the timeline, each exactly once.
C30_RegistriesAgreeWithTimeline ==
    /\ NamesIndexTracks
    /\ ListsVideoTracksOnly
    /\ \A i \in 1..Len(Tracks) :
           TimesListed(i) = IF Tracks[i].kind = "Video" THEN 1 ELSE 0

\* C30 without the count: every video track is in video_tracks, and
\* nothing else is
C30_RegistriesNameEveryTrack ==
    /\ NamesIndexTracks
    /\ ListsVideoTracksOnly
    /\ \A i \in 1..Len(Tracks) : Tracks[i].kind = "Video" => TimesListed(i) >= 1

\* the track V has been made for a channel code, and is in video_tracks
\* twice
C30_Witness ==
    /\ error = ""
    /\ Len(Tracks) >= 1
    /\ Tracks[1].name = "V"
    /\ TimesListed(1) = 2

\* a track has been made for an event that overlaps the content of the
\* track V: it is named V3 while the timeline has two tracks
C30_OverlayNamedByListLength ==
    /\ error = ""
    /\ Len(Tracks) = 2
    /\ Tracks[1].name = "V"
    /\ Tracks[2].name = "V3"
    /\ video_tracks = <<1, 1, 2>>

====
